---- MODULE Spec2Model ----
(***************************************************************************)
(* Voice Bot API client (backend/services/voice_bot_client.py) and the     *)
(* dashboard proxy's error mapping (api/v2/dashboard/voice_bot_proxy.py).  *)
(*                                                                         *)
(* The client runs on one asyncio event loop: a task runs without          *)
(* interruption from one suspending await to the next.  The suspending     *)
(* awaits of _make_request are the cache store calls (asyncio.to_thread)   *)
(* and the outbound request; acquiring the uncontended asyncio.Lock does   *)
(* not suspend, and no await occurs while the lock is held.  Each action   *)
(* below is the code between two suspension points.                        *)
(*                                                                         *)
(* Time is the reading of datetime.now(timezone.utc) in seconds.           *)
(*                                                                         *)
(* Two workloads are explored by Spec: "solo", one task making every kind   *)
(* of call against every kind of answer, and "duo", two concurrent tasks   *)
(* making cacheable GETs that the upstream answers with 200 or 401.        *)
(* SpecLifecycle explores a third, "lifecycle": a client without a cache   *)
(* store, built from any configuration VoiceBotConfig accepts, whose       *)
(* close() runs concurrently with the calls of two tasks.                  *)
(***************************************************************************)
EXTENDS Integers, Sequences, FiniteSets, TLC

VARIABLES
    now,                \* the clock, in seconds
    config,             \* VoiceBotConfig (frozen)
    redis_client,       \* what was passed as redis_client: "None", "Redis", "AsyncRedis",
                        \* or "Down": a Redis client whose server is unreachable
    via_factory,        \* TRUE when the client came from get_voice_bot_client()
    workload,           \* the environment explored: "solo" or "duo" (see Tasks, Requests, Answers)
    jwt_token,          \* self._jwt_token: <<>> for None, <<iat>> for a token
    token_expires_at,   \* self._token_expires_at: <<>> for None, <<instant>>
    redis,              \* the cache store: key -> <<>> or <<entry>>
    calls,              \* per task: the _make_request call in progress
    signed,             \* history: tokens signed at this clock reading since the last invalidation
    last_ok,            \* history: <<>> or <<the last successful cacheable GET: its key, fresh until>>
    lock,               \* self._lock: <<>> when free, <<holder>> when held
    http_client,        \* self._http_client: "None", "open" or "closed"
    close_pc,           \* close(): "idle", or "aclose" while awaiting the transport's aclose()
    \* the singleton factory of voice_bot_client.py
    redis_url,          \* settings.REDIS_URL is set
    voice_bot_client,   \* _voice_bot_client: <<>> for None, <<n>> for the n-th instance created
    client_lock,        \* _client_lock: <<>> when free, <<holder>> when held
    getters,            \* per caller of get_voice_bot_client: its position and what it received
    closer_pc,          \* close_voice_bot_client: "idle", or "closing" while awaiting close()
    created,            \* history: how many VoiceBotClient instances were constructed
    closed,             \* history: the instances whose close() was called
    transports,         \* per instance: its _http_client, "None", "open" or "closed"
    sync_client,        \* DataSyncService.voice_bot_client: <<>> for None, <<n>>
    sync_closer_pc,     \* close_data_sync_service: "idle", or "closing" while awaiting close()
    data_sync_service,  \* _data_sync_service is not None
    sync_close_pc,      \* DataSyncService.close: "idle", or "aclose" while awaiting aclose()
    \* a request to an endpoint of voice_bot_proxy.py
    proxy,
    \* the billing domain: what the repository and the payment processor hold
    \* for one email, and the last create_checkout_session call
    billing,
    \* one DataSyncService.sync_business_data call
    sync,
    \* one request to the voice-bot webhook endpoint of webhooks.py
    webhook,
    \* the RateLimitMiddleware instance of rate_limit.py and its clock
    limiter,
    \* the PhoneConfigSubscriber of phone_config_subscriber.py, for one phone
    subscriber

\* The state of one VoiceBotClient and its callers
client == <<now, config, redis_client, via_factory, workload, jwt_token,
            token_expires_at, redis, calls, signed, last_ok, lock, http_client, close_pc>>

\* The state of the singleton factory
factory == <<redis_url, voice_bot_client, client_lock, getters, closer_pc, created, closed,
             transports, sync_client, sync_closer_pc, data_sync_service, sync_close_pc>>

\* The state of the request handlers and services beside the Voice Bot client
services == <<proxy, billing, sync, webhook, limiter, subscriber>>

\* What no step of a VoiceBotClient touches
elsewhere == <<factory, services>>

\* What no step of the factory touches
around_factory == <<client, services>>

\* What no step of a proxy endpoint touches
around_proxy ==
    <<client, factory, billing, sync, webhook, limiter, subscriber>>

\* What no step of the billing service touches
around_billing ==
    <<client, factory, proxy, sync, webhook, limiter, subscriber>>

\* What no step of the data synchronization service touches
around_sync ==
    <<client, factory, proxy, billing, webhook, limiter, subscriber>>

\* What no step of the webhook endpoint touches
around_webhook ==
    <<client, factory, proxy, billing, sync, limiter, subscriber>>

\* What no step of the rate limiter touches
around_limiter == <<client, factory, proxy, billing, sync, webhook, subscriber>>

\* What no step of the phone configuration subscriber touches
around_subscriber == <<client, factory, proxy, billing, sync, webhook, limiter>>

vars == <<client, elsewhere>>

\* What is fixed at construction.
setup == <<config, redis_client, via_factory, workload>>

(***************************************************************************)
(* Bounds of the model                                                     *)
(***************************************************************************)
MaxTicks == 2
MaxClients == 2

Procs == {"t1", "t2"}

(***************************************************************************)
(* Program constants                                                       *)
(***************************************************************************)
SecondsPerMinute == 60
RenewalMinutes == 5
StopAfterAttempt == 3
WaitMultiplier == 1
WaitMin == 2
WaitMax == 10
ExpBase == 2

\* The clock advances in steps of one minute.
TickSeconds == SecondsPerMinute

Min(a, b) == IF a <= b THEN a ELSE b
Max(a, b) == IF a >= b THEN a ELSE b

(***************************************************************************)
(* Inputs                                                                  *)
(***************************************************************************)
Endpoint == <<"/", "b">>
\* The endpoint health_check asks for (line 909)
Root == <<"/">>
\* A params dict in insertion order: a sequence of <<name, value>> with distinct names.
ParamsAB == << <<"business_id", 1>>, <<"limit", 2>> >>
ParamsBA == << <<"limit", 2>>, <<"business_id", 1>> >>
ParamChoices == {ParamsAB, ParamsBA}

Req(method, params, use_cache, cache_ttl) ==
    [method |-> method, endpoint |-> Endpoint, params |-> params,
     use_cache |-> use_cache, cache_ttl |-> cache_ttl]

\* The calls a caller makes (cache_ttl: <<>> for None).
Requests(w) ==
    IF w = "solo"
    THEN { Req("GET", ParamsAB, TRUE, <<>>), Req("GET", ParamsBA, TRUE, <<60>>),
           Req("GET", ParamsAB, FALSE, <<>>),
           Req("POST", ParamsAB, TRUE, <<>>), Req("POST", ParamsAB, FALSE, <<>>) }
    ELSE IF w = "duo"
    THEN { Req("GET", ParamsAB, TRUE, <<60>>), Req("GET", ParamsBA, TRUE, <<60>>) }
    ELSE { Req("GET", ParamsAB, FALSE, <<>>) }

\* health_check's call (lines 907-911): _make_request("GET", "/", use_cache=False)
HealthCheckRequestCached ==
    [method |-> "GET", endpoint |-> Root, params |-> <<>>,
     use_cache |-> TRUE, cache_ttl |-> <<>>]
HealthCheckRequest ==
    [method |-> "GET", endpoint |-> Root, params |-> <<>>,
     use_cache |-> FALSE, cache_ttl |-> <<>>]

Payloads == {"P1", "EMPTY"}

Http(status, body) == [kind |-> "http", status |-> status, body |-> body]

\* What the outbound exchange can produce.
Responses ==
    {Http(200, b) : b \in Payloads \cup {"UNDECODABLE"}}
    \cup {Http(s, "ERR") : s \in {302, 400, 401, 404, 503}}
    \cup [kind : {"timeout", "network"}, status : {0}, body : {"ERR"}]

\* The answers explored: every one for a single task, success and the
\* authentication failure when two tasks run concurrently.
Answers(w) ==
    IF w = "solo" THEN Responses
    ELSE IF w = "duo" THEN {Http(200, "P1"), Http(401, "ERR")}
    ELSE {Http(200, "P1"), Http(401, "ERR"),
          [kind |-> "network", status |-> 0, body |-> "ERR"]}

Tasks(w) == IF w = "solo" THEN {"t1"} ELSE Procs

Configs ==
    [base_url : {"http://voice-bot"}, jwt_secret : {"secret"}, jwt_algorithm : {"HS256"},
     jwt_expire_minutes : {5, 6}, timeout : {30}, max_retries : {3}, cache_ttl : {120}]

\* Arguments VoiceBotConfig can be constructed with: those of Configs, one
\* with every field empty or zero, and one that names an asymmetric algorithm
\* for a secret that is no key of that kind.
ConfigInputs ==
    Configs
    \cup {[base_url |-> "", jwt_secret |-> "", jwt_algorithm |-> "HS256",
           jwt_expire_minutes |-> 0, timeout |-> 0, max_retries |-> 0, cache_ttl |-> 0],
          [base_url |-> "http://voice-bot", jwt_secret |-> "secret",
           jwt_algorithm |-> "RS256", jwt_expire_minutes |-> 6, timeout |-> 30,
           max_retries |-> 3, cache_ttl |-> 120]}

\* VoiceBotConfig(...) (lines 31-43): the fields are declared by type only, with
\* no validator and no constraint, so construction checks the types and no more.
VoiceBotConfigAccepts(c) ==
    /\ c.base_url \in STRING /\ c.jwt_secret \in STRING /\ c.jwt_algorithm \in STRING
    /\ c.jwt_expire_minutes \in Int /\ c.timeout \in Int
    /\ c.max_retries \in Int /\ c.cache_ttl \in Int

(***************************************************************************)
(* Cache key                                                               *)
(***************************************************************************)
\* Rank of a parameter name in string order.
NameOrd(n) == CASE n = "business_id" -> 1 [] n = "limit" -> 2 [] OTHER -> 3

RECURSIVE InsertSorted(_, _)
InsertSorted(pair, s) ==
    IF s = <<>> THEN <<pair>>
    ELSE IF NameOrd(pair[1]) <= NameOrd(Head(s)[1]) THEN <<pair>> \o s
    ELSE <<Head(s)>> \o InsertSorted(pair, Tail(s))

RECURSIVE SortKeys(_)
SortKeys(params) ==
    IF params = <<>> THEN <<>>
    ELSE InsertSorted(Head(params), SortKeys(Tail(params)))

\* json.dumps(params, sort_keys=True): the pairs in name order, flattened to codes.
RECURSIVE Flatten(_)
Flatten(s) ==
    IF s = <<>> THEN <<>>
    ELSE <<NameOrd(Head(s)[1]), Head(s)[2]>> \o Flatten(Tail(s))

JsonDumpsUnsorted(params) == Flatten(params)
JsonDumps(params) == Flatten(SortKeys(params))

HashModulus == 65536
RECURSIVE DigestFrom(_, _)
DigestFrom(h, codes) ==
    IF codes = <<>> THEN h
    ELSE DigestFrom((h * 31 + Head(codes)) % HashModulus, Tail(codes))

\* hashlib.md5(...).hexdigest()[:12]: a truncated digest of the serialised text.
Digest(codes) == DigestFrom(7, codes)

ReplaceSlash(endpoint) ==
    [i \in DOMAIN endpoint |-> IF endpoint[i] = "/" THEN ":" ELSE endpoint[i]]

CacheKey(endpoint, params) ==
    [endpoint |-> ReplaceSlash(endpoint),
     hash |-> IF params # <<>> THEN <<Digest(JsonDumps(params))>> ELSE <<>>]

AllKeys == {CacheKey(Endpoint, ps) : ps \in ParamChoices} \cup {CacheKey(Root, <<>>)}

(***************************************************************************)
(* Token                                                                   *)
(***************************************************************************)
NeedsRefreshWhenMissing(tok, exp, t) == tok = <<>> \/ exp = <<>>
\* needs_refresh of _get_auth_headers
NeedsRefresh(tok, exp, t) ==
    \/ tok = <<>>
    \/ exp = <<>>
    \/ t >= exp[1] - RenewalMinutes * SecondsPerMinute

\* _generate_jwt_token: the token is determined by iat (and exp = iat + lifetime)
GeneratedToken(t) == <<t>>
GeneratedExpiry(t) == <<t + config.jwt_expire_minutes * SecondsPerMinute>>

\* State of the token after _get_auth_headers ran at the current instant.
AuthToken == IF NeedsRefresh(jwt_token, token_expires_at, now)
             THEN GeneratedToken(now) ELSE jwt_token
AuthExpiry == IF NeedsRefresh(jwt_token, token_expires_at, now)
              THEN GeneratedExpiry(now) ELSE token_expires_at
AuthSigned == IF NeedsRefresh(jwt_token, token_expires_at, now)
              THEN Min(signed + 1, 2) ELSE signed

\* The algorithms that sign with any text as their key
HmacAlgorithms == {"HS256", "HS384", "HS512"}

\* jwt.encode (lines 130-134) raises when the secret is no key for the algorithm.
JwtEncodeRaises(cfg) == cfg.jwt_algorithm \notin HmacAlgorithms

\* What jwt.encode raises
JwtEncodeError == [cls |-> "InvalidKeyError", status_code |-> <<>>]

\* _get_auth_headers has to sign at this instant and the signing raises.
SignFails == NeedsRefresh(jwt_token, token_expires_at, now) /\ JwtEncodeRaises(config)

ExpiryAssignedBeforeEncode(exp, t) == GeneratedExpiry(t)
\* self._token_expires_at when jwt.encode raised: the assignment of line 136
\* comes after the encode of line 130 and is not reached.
ExpiryAfterFailedEncode(exp, t) == exp

AuthHeaderFromCached(cached, current) == cached
\* Lines 154-156: the header is built from self._jwt_token as it is once the
\* locked region (lines 142-152) is over; cached is its value before the region.
AuthHeader(cached, current) == current

LockHeldOverRequest(p) == <<p>>
\* self._lock once _get_auth_headers returned: "async with" released it (line 152).
LockAfterAuth(p) == <<>>

InvalidatedTokenKept(tok) == tok
\* self._jwt_token = None (lines 300 and 895)
InvalidatedToken(tok) == <<>>

(***************************************************************************)
(* Retry decorator (tenacity)                                              *)
(***************************************************************************)
HttpxErrors == {"HTTPStatusError", "TimeoutException", "ConnectError"}

RetryIfVoiceBotErrorToo(cls) == cls \in HttpxErrors \cup {"VoiceBotAPIError"}
\* retry_if_exception_type((httpx.HTTPError, httpx.TimeoutException))
RetryIfExceptionType(cls) == cls \in HttpxErrors

RECURSIVE Pow(_, _)
Pow(b, e) == IF e = 0 THEN 1 ELSE b * Pow(b, e - 1)

\* wait_exponential(multiplier=1, min=2, max=10)
WaitExponential(attempt) ==
    Max(Max(0, WaitMin), Min(WaitMultiplier * Pow(ExpBase, attempt - 1), WaitMax))

(***************************************************************************)
(* Response handling of _make_request                                      *)
(***************************************************************************)
NoExc == [cls |-> "none", status_code |-> <<>>]

\* What the try block raises for a response (lines 284-336).
TryBody(resp) ==
    IF resp.kind = "timeout" THEN [cls |-> "TimeoutException", status_code |-> <<>>]
    ELSE IF resp.kind = "network" THEN [cls |-> "ConnectError", status_code |-> <<>>]
    ELSE IF resp.status = 401 THEN [cls |-> "VoiceBotAPIError", status_code |-> <<401>>]
    ELSE IF resp.status = 404 THEN [cls |-> "VoiceBotAPIError", status_code |-> <<404>>]
    ELSE IF resp.status >= 400
         THEN [cls |-> "VoiceBotAPIError", status_code |-> <<resp.status>>]
    ELSE IF ~(resp.status >= 200 /\ resp.status < 300)
         THEN [cls |-> "HTTPStatusError", status_code |-> <<resp.status>>]
    ELSE IF resp.body = "UNDECODABLE"
         THEN [cls |-> "JSONDecodeError", status_code |-> <<>>]
    ELSE NoExc

ExceptClausesNoCatchAll(exc) ==
    IF exc.cls = "none" THEN NoExc
    ELSE IF exc.cls \in {"HTTPStatusError", "TimeoutException"}
         THEN [cls |-> "VoiceBotAPIError", status_code |-> exc.status_code]
    ELSE exc

\* The except clauses (lines 338-361): what leaves _make_request.
ExceptClauses(exc) ==
    IF exc.cls = "none" THEN NoExc
    ELSE IF exc.cls = "HTTPStatusError"
         THEN [cls |-> "VoiceBotAPIError", status_code |-> exc.status_code]
    ELSE [cls |-> "VoiceBotAPIError", status_code |-> <<>>]

\* The cache check of line 267 and the first two conjuncts of line 333.
UsesCacheAnyMethod(method, use_cache) == use_cache
UsesCache(method, use_cache) == method = "GET" /\ use_cache

\* Line 333 is reached only when the try block raised nothing.
CacheStoreDueAnyOutcome(method, use_cache, raised) == UsesCache(method, use_cache)
CacheStoreDueNever(method, use_cache, raised) == FALSE
CacheStoreDue(method, use_cache, raised) ==
    raised.cls = "none" /\ UsesCache(method, use_cache)

\* What redis.get and redis.setex raise when the server is unreachable
StoreError == [cls |-> "ConnectionError", status_code |-> <<>>]

CacheErrorPropagates(exc) == FALSE
\* "except Exception" of _get_cached (line 197) and of _set_cached (line 230):
\* the error is logged and goes no further.
CacheErrorCaught(exc) == TRUE

\* Line 189: the entry is still valid
CacheValidInclusive(t, expires_at) == t <= expires_at
CacheValid(t, expires_at) == t < expires_at

\* Truthiness of a payload (line 270): an empty dict is falsy
Truthy(data) == data # "EMPTY"

(***************************************************************************)
(* Proxy boundary: handle_voice_bot_error                                  *)
(***************************************************************************)
HandleVoiceBotErrorPassThrough(exc) ==
    IF exc.cls = "VoiceBotAPIError"
    THEN LET status_code == IF exc.status_code # <<>> /\ exc.status_code[1] # 0
                            THEN exc.status_code[1] ELSE 500
         IN  IF status_code = 401 THEN 401
             ELSE IF status_code = 404 THEN 404
             ELSE IF status_code >= 500 THEN status_code
             ELSE 400
    ELSE 500

HandleVoiceBotErrorNoDefault(exc) ==
    IF exc.cls = "VoiceBotAPIError"
    THEN LET status_code == IF exc.status_code # <<>> THEN exc.status_code[1] ELSE 0
         IN  IF status_code = 401 THEN 502
             ELSE IF status_code = 404 THEN 404
             ELSE IF status_code >= 500 THEN 502
             ELSE 400
    ELSE 500

HandleVoiceBotError(exc) ==
    IF exc.cls = "VoiceBotAPIError"
    THEN LET status_code == IF exc.status_code # <<>> /\ exc.status_code[1] # 0
                            THEN exc.status_code[1] ELSE 500
         IN  IF status_code = 401 THEN 502
             ELSE IF status_code = 404 THEN 404
             ELSE IF status_code >= 500 THEN 502
             ELSE 400
    ELSE 500

(***************************************************************************)
(* State                                                                   *)
(***************************************************************************)
IdleCall ==
    [pc |-> "idle", method |-> "GET", endpoint |-> <<>>, params |-> <<>>,
     use_cache |-> FALSE, cache_ttl |-> <<>>, cache_key |-> <<>>,
     attempt |-> 0, header |-> <<>>, header_valid |-> FALSE, sends |-> 0, slept |-> <<>>,
     statuses |-> {}, raised |-> NoExc, error |-> NoExc, result |-> "",
     http |-> 0, from_cache |-> FALSE, cache_reads |-> 0, cache_writes |-> 0,
     hit_at |-> <<>>, set_entry |-> <<>>, expect |-> FALSE,
     health |-> FALSE, report |-> "", header_current |-> FALSE]

\* The callers of get_voice_bot_client
Getters == {"g1", "g2", "g3"}

\* A caller that is not in get_voice_bot_client and holds no instance
GetterIdle == [pc |-> "idle", received |-> <<>>, usable |-> TRUE]

\* No caller is in the factory and nothing was created.
FactoryAtRest ==
    /\ voice_bot_client = <<>>
    /\ client_lock = <<>>
    /\ getters = [g \in Getters |-> GetterIdle]
    /\ closer_pc = "idle"
    /\ created = 0
    /\ closed = {}
    /\ transports = [n \in 1..MaxClients |-> "None"]
    /\ sync_client = <<>>
    /\ sync_closer_pc = "idle"
    /\ data_sync_service = FALSE
    /\ sync_close_pc = "idle"

\* No request is at the proxy.
ProxyIdle ==
    [pc |-> "idle", endpoint |-> "", profile |-> FALSE, updates |-> FALSE,
     raised |-> NoExc, http |-> 0, upstream_calls |-> 0]

\* A service over a double that answers None to both reads, and a configured
\* processor: no open checkout session, no call made, recorded or under way.
BillingEmpty ==
    [configured |-> TRUE, dependency |-> "",
     customer |-> <<>>, subscription |-> <<>>, recorded |-> {}, sessions |-> 0,
     create |-> [pc |-> "idle", answer |-> <<>>, called |-> FALSE],
     completed |-> [pc |-> "idle", answer |-> <<>>, raised |-> ""],
     sync |-> [pc |-> "idle", answer |-> <<>>, raised |-> ""],
     cancel |-> [pc |-> "idle", answer |-> <<>>, at_period_end |-> FALSE,
                 raised |-> ""],
     plan |-> [pc |-> "idle", answer |-> <<>>, new_plan_type |-> "",
               raised |-> ""],
     result |-> ""]

\* No sync_business_data call has been made.
SyncIdle ==
    [pc |-> "idle", direction |-> "", todo |-> <<>>, status |-> "",
     records_processed |-> 0, records_succeeded |-> 0, records_failed |-> 0,
     errors |-> 0, task_failed |-> FALSE, raised |-> FALSE,
     message |-> "", task_passed |-> FALSE]

\* No webhook request has arrived; no webhook secret is configured.
WebhookIdle ==
    [pc |-> "idle", secret |-> <<>>, payload |-> <<>>, signature |-> <<>>,
     parsed |-> FALSE, processed |-> FALSE, status |-> 0]

\* The clients whose requests reach the rate limiter
RateClients == {"a", "b"}

\* RateLimitMiddleware.__init__ at time 0: no client is known.  keys is the
\* insertion order of self.requests; passed is the history of the instants at
\* which a request of each client went downstream.
LimiterNew ==
    [time |-> 0, elapses |-> 0, keys |-> <<>>,
     requests |-> [c \in RateClients |-> <<>>], last_cleanup |-> 0,
     passed |-> [c \in RateClients |-> <<>>], status |-> 0]

\* The businesses that subscribe to the phone
Businesses == {"b1", "b2"}

\* The loop of cleanup() is not running.
CleanupIdle == [pc |-> "idle", used |-> 0, len |-> 0, at |-> 0, bound |-> 0]

\* PhoneConfigSubscriber.__init__: no subscription and no channel.  A
\* subscription object is <<n>>, the n-th one constructed.  channels is the
\* entry table of the dictionary self.channels, in insertion order: the
\* phone's channel with the subscription its handlers are bound to, the
\* business channels (bound 0), and the entries that were deleted (key "").
\* live are the phone's channels that deliver events; returned and removed
\* are the subscriptions whose subscribe_to_phone, unsubscribe_from_phone
\* returned; raised is the exception that left the method in the last step.
SubscriberNew ==
    [subscriptions |-> [b \in Businesses |-> <<>>], channels |-> <<>>,
     live |-> {}, made |-> 0, returned |-> {}, removed |-> {},
     subscribing |-> [b \in Businesses |-> [pc |-> "idle", subscription |-> 0]],
     unsubscribing |-> [b \in Businesses |->
                          [pc |-> "idle", subscription |-> 0, channel |-> 0]],
     cleanup |-> CleanupIdle,
     last |-> "", invoked |-> {}, raised |-> ""]

\* The handlers and services have done nothing yet.
ServicesAtRest ==
    /\ proxy = ProxyIdle
    /\ billing = BillingEmpty
    /\ sync = SyncIdle
    /\ webhook = WebhookIdle
    /\ limiter = LimiterNew
    /\ subscriber = SubscriberNew

\* The other components, which the client's specifications leave at rest.
ElsewhereAtRest ==
    /\ redis_url = FALSE
    /\ FactoryAtRest
    /\ ServicesAtRest

Init ==
    /\ ElsewhereAtRest
    /\ now = 0
    /\ config \in Configs
    /\ \E c \in {<<TRUE, "None">>, <<TRUE, "AsyncRedis">>, <<FALSE, "Redis">>,
                 <<FALSE, "Down">>} :
          via_factory = c[1] /\ redis_client = c[2]
    /\ workload \in {"solo", "duo"}
    /\ jwt_token = <<>>
    /\ token_expires_at = <<>>
    /\ redis = [k \in AllKeys |-> <<>>]
    /\ calls = [p \in Procs |-> IdleCall]
    /\ signed = 0
    /\ last_ok = <<>>
    /\ lock = <<>>
    /\ http_client = "None"
    /\ close_pc = "idle"

(***************************************************************************)
(* _make_request, one action per stretch between suspension points         *)
(***************************************************************************)
\* ttl = ttl or self.config.cache_ttl (line 213)
EffectiveTtl(cache_ttl) ==
    IF cache_ttl # <<>> /\ cache_ttl[1] # 0 THEN cache_ttl[1] ELSE config.cache_ttl

\* What _get_auth_headers and the lazy http_client property read and write.
auth == <<jwt_token, token_expires_at, signed, lock, http_client>>

\* health_check's report (lines 912-923): "healthy" when _make_request returned,
\* "unhealthy" when it raised.
HealthReport(error) == IF error.cls = "none" THEN "healthy" ELSE "unhealthy"

\* The call is over.  An error of health_check becomes its report; any other
\* error goes to the proxy's handle_voice_bot_error.
Finish(c) ==
    [c EXCEPT !.pc = "done",
              !.http = IF c.health \/ c.error.cls = "none" THEN 0
                       ELSE HandleVoiceBotError(c.error),
              !.report = IF c.health THEN HealthReport(c.error) ELSE ""]

\* AsyncClient.request on a client whose aclose() has begun
ClientClosed == [cls |-> "RuntimeError", status_code |-> <<>>]

\* Lines 273-291: the transport is created on first use, the header is built by
\* _get_auth_headers and the request is sent.  A closed transport raises at once.
\* When the signing raises, the error leaves _get_auth_headers (line 275 is
\* outside the try block) and goes to the retry decision as it is.
Send(p, c) ==
    LET header == AuthHeader(jwt_token, AuthToken)
        c1 == [c EXCEPT !.header = header,
                        !.header_current = (header = AuthToken),
                        !.header_valid = now < AuthExpiry[1]]
        c2 == [c EXCEPT !.raised = JwtEncodeError, !.error = JwtEncodeError]
    IN  /\ lock = <<>>
        /\ IF SignFails
           THEN /\ calls' = [calls EXCEPT ![p] =
                               IF RetryIfExceptionType(JwtEncodeError.cls)
                                  /\ c.attempt < StopAfterAttempt
                               THEN [c2 EXCEPT !.pc = "attempt", !.attempt = @ + 1,
                                               !.slept = Append(@, WaitExponential(c.attempt))]
                               ELSE Finish(c2)]
                /\ jwt_token' = jwt_token
                /\ token_expires_at' = ExpiryAfterFailedEncode(token_expires_at, now)
                /\ signed' = signed
           ELSE /\ calls' = [calls EXCEPT ![p] =
                               IF http_client = "closed"
                               THEN Finish([c1 EXCEPT !.raised = ClientClosed,
                                                      !.error = ExceptClauses(ClientClosed)])
                               ELSE [c1 EXCEPT !.pc = "request", !.sends = @ + 1]]
                /\ jwt_token' = AuthToken
                /\ token_expires_at' = AuthExpiry
                /\ signed' = AuthSigned
        /\ lock' = LockAfterAuth(p)
        /\ http_client' = IF http_client = "None" THEN "open" ELSE http_client

\* A caller enters the retry wrapper of _make_request.
Invoke(p, req) ==
    /\ calls[p].pc = "idle"
    /\ calls' = [calls EXCEPT ![p] =
                   [IdleCall EXCEPT !.pc = "attempt", !.method = req.method,
                                    !.endpoint = req.endpoint, !.params = req.params,
                                    !.use_cache = req.use_cache,
                                    !.cache_ttl = req.cache_ttl, !.attempt = 1]]
    /\ UNCHANGED <<elsewhere, setup, now, auth, redis, last_ok, close_pc>>

\* A caller enters health_check (lines 898-911).
HealthCheck(p) ==
    /\ calls[p].pc = "idle"
    /\ calls' = [calls EXCEPT ![p] =
                   [IdleCall EXCEPT !.pc = "attempt", !.health = TRUE,
                                    !.method = HealthCheckRequest.method,
                                    !.endpoint = HealthCheckRequest.endpoint,
                                    !.params = HealthCheckRequest.params,
                                    !.use_cache = HealthCheckRequest.use_cache,
                                    !.cache_ttl = HealthCheckRequest.cache_ttl,
                                    !.attempt = 1]]
    /\ UNCHANGED <<elsewhere, setup, now, auth, redis, last_ok, close_pc>>

\* Lines 265-269 (and on to the send when the store is not consulted).
Attempt(p) ==
    LET c == calls[p]
        key == CacheKey(c.endpoint, c.params)
    IN  /\ c.pc = "attempt"
        /\ IF UsesCache(c.method, c.use_cache)
           THEN LET lo == IF last_ok # <<>> /\ last_ok[1].key = key
                          THEN <<last_ok[1].until>> ELSE <<>>
                    c1 == [c EXCEPT !.cache_key = <<key>>,
                                    !.expect = lo # <<>> /\ now < lo[1]]
                IN  IF redis_client # "None"
                    THEN /\ calls' = [calls EXCEPT ![p] =
                                        [c1 EXCEPT !.pc = "cache_get",
                                                   !.cache_reads = @ + 1]]
                         /\ UNCHANGED auth
                    ELSE Send(p, c1)
           ELSE Send(p, c)
        /\ UNCHANGED <<elsewhere, setup, now, redis, last_ok, close_pc>>

\* _get_cached after redis.get returned (lines 184-200), then line 270.
CacheGet(p) ==
    LET c == calls[p]
        e == redis[c.cache_key[1]]
    IN  /\ c.pc = "cache_get"
        /\ IF redis_client = "Down" /\ ~CacheErrorCaught(StoreError)
           THEN /\ calls' = [calls EXCEPT ![p] =
                               Finish([c EXCEPT !.error = StoreError])]
                /\ UNCHANGED auth
           ELSE IF redis_client = "Redis" /\ e # <<>>
           THEN IF CacheValid(now, e[1].expires_at)
                THEN LET c1 == [c EXCEPT !.hit_at = <<now, e[1].expires_at>>]
                     IN  IF Truthy(e[1].data)
                         THEN /\ calls' = [calls EXCEPT ![p] =
                                             Finish([c1 EXCEPT !.result = e[1].data,
                                                               !.from_cache = TRUE])]
                              /\ UNCHANGED auth
                         ELSE Send(p, c1)
                ELSE /\ calls' = [calls EXCEPT ![p] = [c EXCEPT !.pc = "cache_delete"]]
                     /\ UNCHANGED auth
           ELSE \* nothing stored, an AsyncRedis coroutine that parse_raw rejects,
                \* or an error of the store: a miss
                Send(p, c)
        /\ UNCHANGED <<elsewhere, setup, now, redis, last_ok, close_pc>>

\* redis.delete returned (line 194); the lookup is a miss.
CacheDelete(p) ==
    LET c == calls[p]
    IN  /\ c.pc = "cache_delete"
        /\ redis' = [redis EXCEPT ![c.cache_key[1]] = <<>>]
        /\ Send(p, c)
        /\ UNCHANGED <<elsewhere, setup, now, last_ok, close_pc>>

\* The outbound exchange ended with resp (lines 285-361 and the retry decision).
\* Without a base URL the request never leaves: httpx raises a transport error.
Respond(p, resp) ==
    LET c == calls[p]
        raised == TryBody(resp)
        error == ExceptClauses(raised)
        c1 == [c EXCEPT !.statuses = @ \cup {[kind |-> resp.kind, status |-> resp.status]},
                        !.raised = raised, !.error = error]
        ttl == EffectiveTtl(c.cache_ttl)
    IN  /\ c.pc = "request"
        /\ config.base_url # "" \/ resp.kind = "network"
        /\ IF resp.kind = "http" /\ resp.status = 401
           THEN /\ lock = <<>>
                /\ jwt_token' = InvalidatedToken(jwt_token)
                /\ token_expires_at' = <<>>
                /\ signed' = 0
                /\ lock' = <<>>
           ELSE UNCHANGED <<jwt_token, token_expires_at, signed, lock>>
        /\ last_ok' = IF raised.cls = "none" /\ UsesCache(c.method, c.use_cache)
                      THEN <<[key |-> c.cache_key[1], until |-> now + ttl]>>
                      ELSE last_ok
        /\ IF CacheStoreDue(c.method, c.use_cache, raised) /\ c.cache_key # <<>>
              /\ redis_client # "None"
           THEN calls' = [calls EXCEPT ![p] =
                            [c1 EXCEPT !.pc = "cache_set",
                                       !.result = resp.body,
                                       !.cache_writes = @ + 1,
                                       !.set_entry = <<[data |-> resp.body,
                                                        expires_at |-> now + ttl,
                                                        ttl |-> ttl]>>]]
           ELSE IF raised.cls = "none"
           THEN calls' = [calls EXCEPT ![p] = Finish([c1 EXCEPT !.result = resp.body])]
           ELSE IF RetryIfExceptionType(error.cls) /\ c.attempt < StopAfterAttempt
           THEN calls' = [calls EXCEPT ![p] =
                            [c1 EXCEPT !.pc = "attempt", !.attempt = @ + 1,
                                       !.slept = Append(@, WaitExponential(c.attempt))]]
           ELSE calls' = [calls EXCEPT ![p] = Finish(c1)]
        /\ UNCHANGED <<elsewhere, setup, now, redis, http_client, close_pc>>

\* redis.setex ran in the worker thread (lines 222-227); the store refuses a
\* time to live that is not positive.
CacheSet(p) ==
    LET c == calls[p]
        e == c.set_entry[1]
    IN  /\ c.pc = "cache_set"
        /\ redis' = IF redis_client = "Redis" /\ e.ttl > 0
                    THEN [redis EXCEPT ![c.cache_key[1]] =
                            <<[data |-> e.data, expires_at |-> e.expires_at,
                               redis_exp |-> now + e.ttl]>>]
                    ELSE redis
        /\ calls' = [calls EXCEPT ![p] =
                       IF redis_client = "Down" /\ ~CacheErrorCaught(StoreError)
                       THEN Finish([c EXCEPT !.error = StoreError])
                       ELSE Finish(c)]
        /\ UNCHANGED <<elsewhere, setup, now, auth, last_ok, close_pc>>

\* The caller takes the result or the error; the task is free for another call.
Return(p) ==
    /\ calls[p].pc = "done"
    /\ calls' = [calls EXCEPT ![p] = IdleCall]
    /\ UNCHANGED <<elsewhere, setup, now, auth, redis, last_ok, close_pc>>

\* The clock advances; the store drops the keys whose SETEX time has run out.
Tick ==
    /\ now < MaxTicks * TickSeconds
    /\ now' = now + TickSeconds
    /\ redis' = [k \in AllKeys |->
                   IF redis[k] # <<>> /\ redis[k][1].redis_exp <= now'
                   THEN <<>> ELSE redis[k]]
    /\ last_ok' = IF last_ok # <<>> /\ last_ok[1].until <= now' THEN <<>> ELSE last_ok
    /\ signed' = 0
    /\ UNCHANGED <<elsewhere, setup, jwt_token, token_expires_at, calls, lock, http_client, close_pc>>

\* The tasks that ask for a health check.
HealthCheckers(w) == IF w = "solo" THEN {"t1"} ELSE {}

Next ==
    \/ \E p \in Tasks(workload), req \in Requests(workload) : Invoke(p, req)
    \/ \E p \in HealthCheckers(workload) : HealthCheck(p)
    \/ \E p \in Procs : Attempt(p)
    \/ \E p \in Procs : CacheGet(p)
    \/ \E p \in Procs : CacheDelete(p)
    \/ \E p \in Procs, resp \in Answers(workload) : Respond(p, resp)
    \/ \E p \in Procs : CacheSet(p)
    \/ \E p \in Procs : Return(p)
    \/ Tick

Spec == Init /\ [][Next]_vars

(***************************************************************************)
(* Lifecycle: close() running beside the calls                             *)
(***************************************************************************)
\* close() up to its await of aclose() (lines 889-890), which marks the transport
\* closed before it suspends; with no transport, all of close() (lines 893-896).
Close ==
    /\ close_pc = "idle"
    /\ IF http_client # "None"
       THEN /\ http_client' = "closed"
            /\ close_pc' = "aclose"
            /\ UNCHANGED <<jwt_token, token_expires_at, signed, lock>>
       ELSE /\ lock = <<>>
            /\ jwt_token' = InvalidatedToken(jwt_token)
            /\ token_expires_at' = <<>>
            /\ signed' = 0
            /\ lock' = <<>>
            /\ UNCHANGED <<http_client, close_pc>>
    /\ UNCHANGED <<elsewhere, setup, now, redis, calls, last_ok>>

\* aclose() returned: the authentication state is cleared under the lock (lines 893-896).
CloseEnd ==
    /\ close_pc = "aclose"
    /\ lock = <<>>
    /\ jwt_token' = InvalidatedToken(jwt_token)
    /\ token_expires_at' = <<>>
    /\ signed' = 0
    /\ lock' = <<>>
    /\ close_pc' = "idle"
    /\ UNCHANGED <<elsewhere, setup, now, redis, calls, last_ok, http_client>>

\* A client built by the factory without REDIS_URL, from any configuration
\* that VoiceBotConfig accepts.
InitLifecycle ==
    /\ ElsewhereAtRest
    /\ now = 0
    /\ config \in {c \in ConfigInputs : VoiceBotConfigAccepts(c)}
    /\ via_factory = TRUE
    /\ redis_client = "None"
    /\ workload = "lifecycle"
    /\ jwt_token = <<>>
    /\ token_expires_at = <<>>
    /\ redis = [k \in AllKeys |-> <<>>]
    /\ calls = [p \in Procs |-> IdleCall]
    /\ signed = 0
    /\ last_ok = <<>>
    /\ lock = <<>>
    /\ http_client = "None"
    /\ close_pc = "idle"

NextLifecycle ==
    \/ \E p \in Tasks(workload), req \in Requests(workload) : Invoke(p, req)
    \/ \E p \in Procs : Attempt(p)
    \/ \E p \in Procs, resp \in Answers(workload) : Respond(p, resp)
    \/ \E p \in Procs : Return(p)
    \/ Tick
    \/ Close
    \/ CloseEnd

SpecLifecycle == InitLifecycle /\ [][NextLifecycle]_vars

(***************************************************************************)
(* The singleton factory: get_voice_bot_client, close_voice_bot_client     *)
(***************************************************************************)
\* The configuration get_voice_bot_client builds from the default settings
SettingsConfig ==
    [base_url |-> "http://voice-bot", jwt_secret |-> "secret", jwt_algorithm |-> "HS256",
     jwt_expire_minutes |-> 30, timeout |-> 30, max_retries |-> 3, cache_ttl |-> 300]

\* A client that nobody has used yet.
ClientAtRest ==
    /\ now = 0
    /\ config = SettingsConfig
    /\ via_factory = TRUE
    /\ redis_client = "None"
    /\ workload = "none"
    /\ jwt_token = <<>>
    /\ token_expires_at = <<>>
    /\ redis = [k \in AllKeys |-> <<>>]
    /\ calls = [p \in Procs |-> IdleCall]
    /\ signed = 0
    /\ last_ok = <<>>
    /\ lock = <<>>
    /\ http_client = "None"
    /\ close_pc = "idle"

\* The transports, the data synchronization service with the instance it
\* keeps, and the positions of close_data_sync_service and DataSyncService.close
held == <<transports, sync_client, sync_closer_pc, data_sync_service, sync_close_pc>>

\* self._http_client once close() ran: an existing transport is closed, and
\* the attribute is not reset (lines 889-890).
AfterAclose(transport) == IF transport = "None" THEN "None" ELSE "closed"

\* What a caller has once get_voice_bot_client returned instance c to it;
\* usable records whether the transport of c was not closed at that moment.
Got(c) == [pc |-> "got", received |-> c, usable |-> transports[c[1]] # "closed"]

ClientLockFreeDuringPing(g) == <<>>
\* _client_lock while the creating caller awaits redis_client.ping(): the await
\* of line 973 is inside "async with _client_lock" (lines 945-979).
ClientLockDuringPing(g) == <<g>>

\* VoiceBotClient(config, redis_client) is assigned to the global (line 978).
NewClient == <<created + 1>>

\* get_voice_bot_client up to its first suspension: the lock is taken when it
\* is free; an existing instance is returned at once (lines 945-946, 981), and
\* a new one is built at once when no REDIS_URL is set (lines 946-960, 978).
GetClient(g) ==
    /\ getters[g].pc = "idle"
    /\ client_lock = <<>>
    /\ IF voice_bot_client # <<>>
       THEN /\ getters' = [getters EXCEPT ![g] = Got(voice_bot_client)]
            /\ UNCHANGED <<voice_bot_client, client_lock, created>>
       ELSE /\ created < MaxClients
            /\ IF redis_url
               THEN /\ getters' = [getters EXCEPT ![g].pc = "ping"]
                    /\ client_lock' = ClientLockDuringPing(g)
                    /\ UNCHANGED <<voice_bot_client, created>>
               ELSE /\ voice_bot_client' = NewClient
                    /\ created' = created + 1
                    /\ getters' = [getters EXCEPT ![g] = Got(NewClient)]
                    /\ UNCHANGED client_lock
    /\ UNCHANGED <<around_factory, redis_url, closer_pc, closed, held>>

\* ping() returned or raised (lines 973-977): the instance is built and
\* assigned, the lock is released and the global is returned (lines 978-981).
PingReturns(g) ==
    /\ getters[g].pc = "ping"
    /\ created < MaxClients
    /\ voice_bot_client' = NewClient
    /\ created' = created + 1
    /\ client_lock' = <<>>
    /\ getters' = [getters EXCEPT ![g] = Got(NewClient)]
    /\ UNCHANGED <<around_factory, redis_url, closer_pc, closed, held>>

\* The caller lets go of the instance it received.
Release(g) ==
    /\ getters[g].pc = "got"
    /\ getters' = [getters EXCEPT ![g] = GetterIdle]
    /\ UNCHANGED <<around_factory, redis_url, voice_bot_client, client_lock, closer_pc, created,
                   closed, held>>

\* close_voice_bot_client up to its first suspension (lines 988-992): close()
\* suspends in aclose() when the instance has a transport (lines 889-890);
\* with no transport close() returns at once and the global is reset.
CloseClientBegin ==
    /\ closer_pc = "idle"
    /\ client_lock = <<>>
    /\ voice_bot_client # <<>>
    /\ closed' = closed \cup {voice_bot_client[1]}
    /\ IF transports[voice_bot_client[1]] # "None"
       THEN /\ client_lock' = <<"closer">>
            /\ closer_pc' = "closing"
            /\ transports' = [transports EXCEPT ![voice_bot_client[1]] = AfterAclose(@)]
            /\ UNCHANGED voice_bot_client
       ELSE /\ voice_bot_client' = <<>>
            /\ UNCHANGED <<client_lock, closer_pc, transports>>
    /\ UNCHANGED <<around_factory, redis_url, getters, created, sync_client, sync_closer_pc,
                   data_sync_service, sync_close_pc>>

\* close() returned: the global is reset and the lock released (lines 991-992).
CloseClientEnd ==
    /\ closer_pc = "closing"
    /\ voice_bot_client' = <<>>
    /\ client_lock' = <<>>
    /\ closer_pc' = "idle"
    /\ UNCHANGED <<around_factory, redis_url, getters, created, closed, held>>

\* A caller sends a request with the instance it holds: the http_client
\* property creates the transport when there is none (lines 98-113).
UseClient(g) ==
    /\ getters[g].pc = "got"
    /\ transports[getters[g].received[1]] = "None"
    /\ transports' = [transports EXCEPT ![getters[g].received[1]] = "open"]
    /\ UNCHANGED <<around_factory, redis_url, voice_bot_client, client_lock, getters,
                   closer_pc, created, closed, sync_client, sync_closer_pc,
                   data_sync_service, sync_close_pc>>

\* get_data_sync_service (data_sync.py lines 728-742): under _service_lock,
\* which close_data_sync_service holds while it awaits close(), the singleton
\* is created when there is none; a new service keeps no instance (line 100).
GetDataSyncService ==
    /\ sync_closer_pc = "idle"
    /\ data_sync_service' = TRUE
    /\ UNCHANGED <<around_factory, redis_url, voice_bot_client, client_lock, getters,
                   closer_pc, created, closed, transports, sync_client, sync_closer_pc,
                   sync_close_pc>>

\* DataSyncService._ensure_initialized: the caller is the service, which keeps
\* the instance get_voice_bot_client returned (data_sync.py lines 111-114).
SyncEnsureInitialized(g) ==
    /\ getters[g].pc = "got"
    /\ data_sync_service
    /\ sync_client = <<>>
    /\ sync_client' = getters[g].received
    /\ getters' = [getters EXCEPT ![g] = GetterIdle]
    /\ UNCHANGED <<around_factory, redis_url, voice_bot_client, client_lock, closer_pc,
                   created, closed, transports, sync_closer_pc, data_sync_service,
                   sync_close_pc>>

\* The service sends a request with the instance it keeps (the calls of
\* self.voice_bot_client in the sync tasks): the http_client property creates
\* the transport when there is none (voice_bot_client.py lines 98-113).
SyncServiceUse ==
    /\ sync_client # <<>>
    /\ transports[sync_client[1]] = "None"
    /\ transports' = [transports EXCEPT ![sync_client[1]] = "open"]
    /\ UNCHANGED <<around_factory, redis_url, voice_bot_client, client_lock, getters,
                   closer_pc, created, closed, sync_client, sync_closer_pc,
                   data_sync_service, sync_close_pc>>

\* DataSyncService.close up to its first suspension (data_sync.py lines
\* 706-717): close() of the instance the service keeps is called whether or
\* not it was closed before, and suspends in aclose() when the instance has a
\* transport (voice_bot_client.py lines 889-890); the service keeps the instance.
SyncServiceClose ==
    /\ sync_close_pc = "idle"
    /\ sync_client # <<>>
    /\ closed' = closed \cup {sync_client[1]}
    /\ IF transports[sync_client[1]] # "None"
       THEN /\ transports' = [transports EXCEPT ![sync_client[1]] = AfterAclose(@)]
            /\ sync_close_pc' = "aclose"
       ELSE UNCHANGED <<transports, sync_close_pc>>
    /\ UNCHANGED <<around_factory, redis_url, voice_bot_client, client_lock, getters,
                   closer_pc, created, sync_client, sync_closer_pc, data_sync_service>>

\* aclose() returned: the authentication state of the instance is cleared
\* (voice_bot_client.py lines 893-896) and DataSyncService.close returns
\* (data_sync.py lines 712-715).
SyncServiceCloseEnd ==
    /\ sync_close_pc = "aclose"
    /\ sync_close_pc' = "idle"
    /\ UNCHANGED <<around_factory, redis_url, voice_bot_client, client_lock, getters,
                   closer_pc, created, closed, transports, sync_client, sync_closer_pc,
                   data_sync_service>>

\* close_data_sync_service up to its first suspension (data_sync.py lines
\* 745-753): it acts whenever the singleton exists (line 750).  close()
\* suspends when the service keeps an instance that has a transport; else
\* close() returns at once and the singleton is dropped (line 752).
CloseDataSyncServiceBegin ==
    /\ sync_closer_pc = "idle"
    /\ data_sync_service
    /\ IF sync_client # <<>> /\ transports[sync_client[1]] # "None"
       THEN /\ sync_closer_pc' = "closing"
            /\ transports' = [transports EXCEPT ![sync_client[1]] = AfterAclose(@)]
            /\ closed' = closed \cup {sync_client[1]}
            /\ UNCHANGED <<sync_client, data_sync_service>>
       ELSE /\ closed' = closed \cup {sync_client[i] : i \in 1..Len(sync_client)}
            /\ data_sync_service' = FALSE
            /\ sync_client' = <<>>
            /\ UNCHANGED <<transports, sync_closer_pc>>
    /\ UNCHANGED <<around_factory, redis_url, voice_bot_client, client_lock, getters,
                   closer_pc, created, sync_close_pc>>

\* close() returned: the singleton is dropped (line 752), and the next one
\* initializes anew.
CloseDataSyncServiceEnd ==
    /\ sync_closer_pc = "closing"
    /\ sync_closer_pc' = "idle"
    /\ data_sync_service' = FALSE
    /\ sync_client' = <<>>
    /\ UNCHANGED <<around_factory, redis_url, voice_bot_client, client_lock, getters,
                   closer_pc, created, closed, transports, sync_close_pc>>

InitFactory ==
    /\ ClientAtRest
    /\ ServicesAtRest
    /\ redis_url \in BOOLEAN
    /\ FactoryAtRest

NextFactory ==
    \/ \E g \in Getters : GetClient(g)
    \/ \E g \in Getters : PingReturns(g)
    \/ \E g \in Getters : Release(g)
    \/ CloseClientBegin
    \/ CloseClientEnd
    \/ \E g \in Getters : UseClient(g)
    \/ \E g \in Getters : SyncEnsureInitialized(g)
    \/ GetDataSyncService
    \/ SyncServiceUse
    \/ SyncServiceClose
    \/ SyncServiceCloseEnd
    \/ CloseDataSyncServiceBegin
    \/ CloseDataSyncServiceEnd

SpecFactory == InitFactory /\ [][NextFactory]_vars

(***************************************************************************)
(* Proxy endpoints of voice_bot_proxy.py                                   *)
(***************************************************************************)
\* The endpoints that look the caller's business up before they call the
\* Voice Bot client (lines 238-757).
ProxyEndpoints ==
    {"get_business_profile", "update_business_profile", "get_services",
     "create_service", "update_service", "delete_service", "reorder_services",
     "apply_service_template", "get_business_hours", "update_business_hours",
     "add_holiday", "remove_holiday", "get_analytics", "get_prompts",
     "update_prompts", "get_staff", "get_integrations"}

\* The endpoints that answer at once when the body carries no update
\* ("if not update_data: return {...}", lines 288-289, 389-390, 535-536,
\* 698-699).
UpdateEndpoints ==
    {"update_business_profile", "update_service", "update_business_hours",
     "update_prompts"}

\* Whether the endpoint returns before it calls the client: the body, with
\* unset and None fields removed, is empty.
NothingToUpdate(e, updates) == e \in UpdateEndpoints /\ ~updates

\* get_business_id_for_user (lines 160-184): what it raises
BusinessIdLookup(profile) ==
    IF ~profile THEN [cls |-> "HTTPException", status_code |-> <<404>>] ELSE NoExc

\* "except Exception as e: raise handle_voice_bot_error(e, ...)" (lines 264-265
\* and the same clause of every endpoint): the status the endpoint answers
\* with for what its try block raised.
EndpointHandler(exc) == HandleVoiceBotError(exc)

\* A request of an authenticated user arrives at an endpoint; updates tells
\* whether its body sets a field (it is read by the update endpoints only).
ProxyRequest(e, profile, updates) ==
    /\ proxy.pc = "idle"
    /\ proxy' = [ProxyIdle EXCEPT !.pc = "lookup", !.endpoint = e,
                                  !.profile = profile, !.updates = updates]
    /\ UNCHANGED around_proxy

\* supabase.get_business_profile returned (lines 174-184); the endpoint goes on
\* to its except clause, returns because there is nothing to update, or calls
\* the client.
ProfileLookup ==
    LET raised == BusinessIdLookup(proxy.profile)
    IN  /\ proxy.pc = "lookup"
        /\ proxy' = IF raised.cls # "none"
                    THEN [proxy EXCEPT !.pc = "done", !.raised = raised,
                                       !.http = EndpointHandler(raised)]
                    ELSE IF NothingToUpdate(proxy.endpoint, proxy.updates)
                    THEN [proxy EXCEPT !.pc = "done", !.http = 200]
                    ELSE [proxy EXCEPT !.pc = "upstream", !.upstream_calls = @ + 1]
        /\ UNCHANGED around_proxy

\* The call to the client returned or raised what _make_request lets out.
UpstreamReturns(resp) ==
    LET raised == ExceptClauses(TryBody(resp))
    IN  /\ proxy.pc = "upstream"
        /\ proxy' = [proxy EXCEPT !.pc = "done", !.raised = raised,
                                  !.http = IF raised.cls = "none" THEN 200
                                           ELSE EndpointHandler(raised)]
        /\ UNCHANGED around_proxy

\* The response is sent.
ProxyRespond ==
    /\ proxy.pc = "done"
    /\ proxy' = ProxyIdle
    /\ UNCHANGED around_proxy

InitProxy ==
    /\ ClientAtRest
    /\ ElsewhereAtRest

NextProxy ==
    \/ \E e \in ProxyEndpoints, profile \in BOOLEAN, updates \in BOOLEAN :
            ProxyRequest(e, profile, updates)
    \/ ProfileLookup
    \/ \E resp \in Responses : UpstreamReturns(resp)
    \/ ProxyRespond

SpecProxy == InitProxy /\ [][NextProxy]_vars

(***************************************************************************)
(* The billing domain: BillingService over a billing repository and the    *)
(* Stripe payment processor, for the customer of one email.  The service   *)
(* is built as test_billing_domain.py builds it, over a double of          *)
(* IBillingRepository: its two read methods return the values they were    *)
(* configured with, and its write methods record the call.  The            *)
(* processor's methods call the Stripe library without suspending; a       *)
(* method of the repository may suspend its caller until it answers.       *)
(***************************************************************************)
MaxSessions == 2

SubscriptionStatus ==
    {"active", "past_due", "canceled", "incomplete", "incomplete_expired",
     "trialing", "unpaid"}

\* Subscription.is_active
IsActive(status) == status \in {"active", "trialing"}

\* The return values the double is configured with (test_billing_domain.py
\* lines 91-92, 114-121): get_customer_by_email returns None or a customer,
\* with or without a Stripe id; get_customer_subscription returns None or a
\* subscription with a status, with or without a Stripe id (None is the
\* default of Subscription.stripe_subscription_id), on the starter plan.
\* Only a customer with a Stripe id is given a subscription: the service
\* records one only after it has written the customer's Stripe id
\* (billing_service.py lines 381-415).
RepositoryAnswers ==
    {[customer |-> <<>>, subscription |-> <<>>],
     [customer |-> <<[stripe_customer_id |-> FALSE]>>, subscription |-> <<>>],
     [customer |-> <<[stripe_customer_id |-> TRUE]>>, subscription |-> <<>>]}
    \union {[customer |-> <<[stripe_customer_id |-> TRUE]>>,
             subscription |-> <<[status |-> s, stripe_subscription_id |-> id,
                                 plan_type |-> "starter"]>>] :
              s \in {"active", "trialing", "past_due"}, id \in BOOLEAN}

\* get_billing_service of the controller: SupabaseBillingRepository(supabase)
\* calls super().__init__(client), and SupabaseRepository.__init__ requires
\* table_name, entity_class and domain_name as well, so no service is built
\* over that repository.
GetBillingService ==
    /\ billing.dependency = ""
    /\ billing' = [billing EXCEPT !.dependency = "TypeError"]
    /\ UNCHANGED around_billing

\* The duplicate test of create_checkout_session on what the repository
\* answered: the customer has a Stripe id (line 59), and the subscription that
\* was returned is active (line 64).
HasStripeId(customer) == customer # <<>> /\ customer[1].stripe_customer_id

DuplicateIfStatusActive(subscription) ==
    subscription # <<>> /\ subscription[1].status = "active"

DuplicateSubscription(subscription) ==
    subscription # <<>> /\ IsActive(subscription[1].status)

\* payment_processor.create_checkout_session and what create_checkout_session
\* makes of it (lines 84-99): a session is opened and its url returned;
\* ExternalServiceError passes; ValidationError becomes InternalError.
ProcessorOutcomes == {"url", "ExternalServiceError", "ValidationError"}

\* StripePaymentProcessor._ensure_configured (stripe_processor.py lines 64-71),
\* the first statement of every method of the processor: without
\* STRIPE_SECRET_KEY the method raises ExternalServiceError, whatever Stripe
\* would have answered.
EnsureConfigured(configured, outcome) ==
    IF configured THEN outcome ELSE "ExternalServiceError"

CallProcessor(outcome) ==
    LET made == EnsureConfigured(billing.configured, outcome)
    IN  [billing EXCEPT
           !.create = [pc |-> "idle", answer |-> <<>>, called |-> TRUE],
           !.result = IF made = "ValidationError" THEN "InternalError" ELSE made,
           !.sessions = IF made = "url" THEN @ + 1 ELSE @]

\* BillingService.create_checkout_session(email, ...) is called (lines 56-58):
\* get_customer_by_email is asked and the caller is suspended.
CreateCheckoutSession ==
    /\ billing.create.pc = "idle"
    /\ billing.sessions < MaxSessions
    /\ billing' = [billing EXCEPT !.result = "",
                     !.create = [pc |-> "customer", answer |-> billing.customer,
                                 called |-> FALSE]]
    /\ UNCHANGED around_billing

\* get_customer_by_email has answered (lines 58-61, 76-85): for a customer
\* with a Stripe id get_customer_subscription is asked and the caller is
\* suspended again; otherwise the processor is called.
CreateCustomerAnswered(outcome) ==
    /\ billing.create.pc = "customer"
    /\ billing' =
         IF HasStripeId(billing.create.answer)
         THEN [billing EXCEPT !.create.pc = "subscription",
                              !.create.answer = billing.subscription]
         ELSE CallProcessor(outcome)
    /\ UNCHANGED around_billing

\* get_customer_subscription has answered (lines 61-85): BusinessRuleViolation
\* for a duplicate; otherwise the processor is called.
CreateSubscriptionAnswered(outcome) ==
    /\ billing.create.pc = "subscription"
    /\ billing' =
         IF DuplicateSubscription(billing.create.answer)
         THEN [billing EXCEPT !.create.pc = "idle", !.create.answer = <<>>,
                              !.result = "BusinessRuleViolation"]
         ELSE CallProcessor(outcome)
    /\ UNCHANGED around_billing

\* What Stripe returns for retrieve_subscription (stripe_processor.py lines
\* 244-253): None (on a StripeError), or a subscription with the status Stripe
\* gives it, which may be one that SubscriptionStatus does not have.  The
\* answers drawn here: None, a status of SubscriptionStatus, and paused.
StripeSubscriptions == {"none", "active", "paused"}

\* Lines 396-415 of _handle_checkout_completed: the subscription is retrieved
\* from Stripe.  When the processor raises, or SubscriptionStatus(...) raises
\* for the status (line 406), handle_webhook_event raises InternalError (lines
\* 356-366); when Stripe returns None nothing is written; otherwise
\* create_subscription is called with the subscription and the handler is
\* suspended.
RecordSubscription(b, stripe_sub) ==
    LET retrieved == EnsureConfigured(b.configured, stripe_sub)
    IN  IF retrieved = "none"
        THEN [b EXCEPT !.completed.pc = "idle", !.completed.answer = <<>>]
        ELSE IF retrieved \notin SubscriptionStatus
        THEN [b EXCEPT !.completed.pc = "idle", !.completed.answer = <<>>,
                       !.completed.raised = "InternalError"]
        ELSE [b EXCEPT !.completed.pc = "recorded", !.completed.answer = <<>>,
                       !.recorded = @ \cup {<<"create_subscription", retrieved>>}]

\* BillingService._handle_checkout_completed is called with a
\* checkout.session.completed event (lines 368-381); complete tells whether
\* the event carries the email, the customer id and the subscription id.  An
\* event without one of them is dropped; otherwise get_customer_by_email is
\* asked and the handler is suspended.  Such an event closes an open
\* session, if there is one.
CheckoutCompleted(complete) ==
    /\ billing.completed.pc = "idle"
    /\ billing' =
         IF ~complete
         THEN [billing EXCEPT !.completed.raised = ""]
         ELSE [billing EXCEPT !.sessions = Max(0, @ - 1),
                 !.completed = [pc |-> "customer", answer |-> billing.customer,
                                raised |-> ""]]
    /\ UNCHANGED around_billing

\* get_customer_by_email has answered (lines 381-415): without a customer,
\* create_customer is called with a customer that has the Stripe id; for a
\* customer that lacks the Stripe id, update_customer is called with it; both
\* suspend the handler.  For a customer that has the id the handler goes on
\* to the subscription.
CompletedCustomerAnswered(stripe_sub) ==
    /\ billing.completed.pc = "customer"
    /\ billing' =
         IF billing.completed.answer = <<>>
         THEN [billing EXCEPT
                 !.completed.pc = "written", !.completed.answer = <<>>,
                 !.recorded = @ \cup {<<"create_customer", "stripe_customer_id">>}]
         ELSE IF ~HasStripeId(billing.completed.answer)
         THEN [billing EXCEPT
                 !.completed.pc = "written", !.completed.answer = <<>>,
                 !.recorded = @ \cup {<<"update_customer", "stripe_customer_id">>}]
         ELSE RecordSubscription(billing, stripe_sub)
    /\ UNCHANGED around_billing

\* create_customer or update_customer has answered (lines 389-415).
CompletedCustomerWritten(stripe_sub) ==
    /\ billing.completed.pc = "written"
    /\ billing' = RecordSubscription(billing, stripe_sub)
    /\ UNCHANGED around_billing

\* create_subscription has answered; the handler returns.
CompletedRecorded ==
    /\ billing.completed.pc = "recorded"
    /\ billing' = [billing EXCEPT !.completed.pc = "idle"]
    /\ UNCHANGED around_billing

\* BillingService.get_customer_subscription is called (lines 106-107):
\* the repository is asked and the caller is suspended.
SyncSubscription ==
    /\ billing.sync.pc = "idle"
    /\ billing' = [billing EXCEPT !.sync =
                     [pc |-> "subscription", raised |-> "",
                      answer |-> billing.subscription]]
    /\ UNCHANGED around_billing

\* The repository has answered (lines 110-134).  What it returned is returned
\* as it is when it is None or a subscription without a Stripe id (line
\* 110).  Otherwise the subscription is retrieved from Stripe: when the
\* processor raises, or SubscriptionStatus(...) raises for the status (line
\* 445), the call raises InternalError; when Stripe returns None nothing is
\* written; otherwise update_subscription is called with the status Stripe
\* reports and the caller is suspended (line 118).
SyncSubscriptionAnswered(stripe_data) ==
    /\ billing.sync.pc = "subscription"
    /\ LET retrieved == EnsureConfigured(billing.configured, stripe_data)
       IN  billing' =
             IF \/ billing.sync.answer = <<>>
                \/ ~billing.sync.answer[1].stripe_subscription_id
                \/ retrieved = "none"
             THEN [billing EXCEPT !.sync.pc = "idle", !.sync.answer = <<>>]
             ELSE IF retrieved \notin SubscriptionStatus
             THEN [billing EXCEPT !.sync.pc = "idle", !.sync.answer = <<>>,
                                  !.sync.raised = "InternalError"]
             ELSE [billing EXCEPT
                     !.sync.pc = "updating", !.sync.answer = <<>>,
                     !.recorded = @ \cup {<<"update_subscription", retrieved>>}]
    /\ UNCHANGED around_billing

\* update_subscription has answered; the subscription is returned (line 123).
SyncSubscriptionUpdated ==
    /\ billing.sync.pc = "updating"
    /\ billing' = [billing EXCEPT !.sync.pc = "idle"]
    /\ UNCHANGED around_billing

\* BillingService.cancel_subscription(customer_id, at_period_end) is called
\* (lines 142-144): the repository is asked and the caller is suspended.
CancelSubscription(at_period_end) ==
    /\ billing.cancel.pc = "idle"
    /\ billing' = [billing EXCEPT !.cancel =
                     [pc |-> "subscription", raised |-> "",
                      at_period_end |-> at_period_end,
                      answer |-> billing.subscription]]
    /\ UNCHANGED around_billing

\* What payment_processor.cancel_subscription does (stripe_processor.py lines
\* 158-186): it returns True, or raises ExternalServiceError on a StripeError.
CancelOutcomes == {"True", "ExternalServiceError"}

\* The repository has answered (lines 145-190): ResourceNotFoundError without
\* a subscription, BusinessRuleViolation for one that is not active, and, for
\* a subscription with a Stripe id (line 167), ExternalServiceError when the
\* processor raises.  Otherwise update_subscription is called, with the
\* status canceled unless the cancellation is for the end of the period, and
\* the caller is suspended.
CancelSubscriptionAnswered(outcome) ==
    /\ billing.cancel.pc = "subscription"
    /\ LET answer == billing.cancel.answer
           raise(exc) == [billing EXCEPT !.cancel.pc = "idle", !.cancel.answer = <<>>,
                                         !.cancel.raised = exc]
       IN  billing' =
             IF answer = <<>> THEN raise("ResourceNotFoundError")
             ELSE IF ~IsActive(answer[1].status) THEN raise("BusinessRuleViolation")
             ELSE IF /\ answer[1].stripe_subscription_id
                     /\ EnsureConfigured(billing.configured, outcome) # "True"
             THEN raise("ExternalServiceError")
             ELSE [billing EXCEPT
                     !.cancel.pc = "updating", !.cancel.answer = <<>>,
                     !.recorded = @ \cup
                        {<<"update_subscription",
                           IF billing.cancel.at_period_end
                           THEN "cancel_at_period_end" ELSE "canceled">>}]
    /\ UNCHANGED around_billing

\* update_subscription has answered; cancel_subscription returns True (line 191).
CancelSubscriptionUpdated ==
    /\ billing.cancel.pc = "updating"
    /\ billing' = [billing EXCEPT !.cancel.pc = "idle"]
    /\ UNCHANGED around_billing

\* BillingService.update_subscription_plan(customer_id, new_plan_type) is
\* called (lines 212-214): the repository is asked and the caller is
\* suspended.
UpdateSubscriptionPlan(new_plan_type) ==
    /\ billing.plan.pc = "idle"
    /\ billing' = [billing EXCEPT !.plan =
                     [pc |-> "subscription", raised |-> "",
                      new_plan_type |-> new_plan_type,
                      answer |-> billing.subscription]]
    /\ UNCHANGED around_billing

\* The repository has answered (lines 215-256): ResourceNotFoundError without
\* a subscription, BusinessRuleViolation for one that is on the plan, and,
\* for a subscription with a Stripe id (line 237), what the processor's
\* update_subscription raises (stripe_processor.py lines 188-225):
\* ExternalServiceError passes, ValidationError becomes InternalError (lines
\* 270-281).  Otherwise update_subscription of the repository is called with
\* the plan and the caller is suspended.
PlanSubscriptionAnswered(outcome) ==
    /\ billing.plan.pc = "subscription"
    /\ LET answer == billing.plan.answer
           made == EnsureConfigured(billing.configured, outcome)
           raise(exc) == [billing EXCEPT !.plan = [pc |-> "idle", answer |-> <<>>,
                                                   new_plan_type |-> "",
                                                   raised |-> exc]]
       IN  billing' =
             IF answer = <<>> THEN raise("ResourceNotFoundError")
             ELSE IF answer[1].plan_type = billing.plan.new_plan_type
             THEN raise("BusinessRuleViolation")
             ELSE IF answer[1].stripe_subscription_id /\ made # "True"
             THEN raise(IF made = "ValidationError" THEN "InternalError" ELSE made)
             ELSE [billing EXCEPT
                     !.plan.pc = "updating", !.plan.answer = <<>>,
                     !.plan.new_plan_type = "",
                     !.recorded = @ \cup {<<"update_subscription", "plan_type">>}]
    /\ UNCHANGED around_billing

\* update_subscription has answered (lines 253-268): the subscription it
\* returned is returned; when it returned None the call raises InternalError.
PlanSubscriptionUpdated(updated) ==
    /\ billing.plan.pc = "updating"
    /\ billing' = [billing EXCEPT
                     !.plan.pc = "idle",
                     !.plan.raised = IF updated THEN "" ELSE "InternalError"]
    /\ UNCHANGED around_billing

InitBilling ==
    /\ ClientAtRest
    /\ redis_url = FALSE
    /\ FactoryAtRest
    /\ proxy = ProxyIdle
    /\ sync = SyncIdle
    /\ webhook = WebhookIdle
    /\ limiter = LimiterNew
    /\ subscriber = SubscriberNew
    /\ \E configured \in BOOLEAN, answers \in RepositoryAnswers :
          billing = [BillingEmpty EXCEPT !.configured = configured,
                                         !.customer = answers.customer,
                                         !.subscription = answers.subscription]

NextBilling ==
    \/ GetBillingService
    \/ CreateCheckoutSession
    \/ \E outcome \in ProcessorOutcomes : CreateCustomerAnswered(outcome)
    \/ \E outcome \in ProcessorOutcomes : CreateSubscriptionAnswered(outcome)
    \/ \E complete \in BOOLEAN : CheckoutCompleted(complete)
    \/ \E stripe_sub \in StripeSubscriptions : CompletedCustomerAnswered(stripe_sub)
    \/ \E stripe_sub \in StripeSubscriptions : CompletedCustomerWritten(stripe_sub)
    \/ CompletedRecorded
    \/ SyncSubscription
    \/ \E stripe_data \in StripeSubscriptions : SyncSubscriptionAnswered(stripe_data)
    \/ SyncSubscriptionUpdated
    \/ \E at_period_end \in BOOLEAN : CancelSubscription(at_period_end)
    \/ \E outcome \in CancelOutcomes : CancelSubscriptionAnswered(outcome)
    \/ CancelSubscriptionUpdated
    \/ \E new_plan_type \in {"starter", "professional"} :
          UpdateSubscriptionPlan(new_plan_type)
    \/ \E outcome \in CancelOutcomes \union {"ValidationError"} :
          PlanSubscriptionAnswered(outcome)
    \/ \E updated \in BOOLEAN : PlanSubscriptionUpdated(updated)

SpecBilling == InitBilling /\ [][NextBilling]_vars

(***************************************************************************)
(* DataSyncService.sync_business_data: the enabled tasks run one after the *)
(* other, each under asyncio.wait_for, and their results are aggregated    *)
(* into one SyncResult.                                                    *)
(***************************************************************************)
MaxRecords == 2

SyncDirection ==
    {"voice_bot_to_dashboard", "dashboard_to_voice_bot", "bidirectional"}

\* The tasks in the order sync_business_data appends them.
SyncTaskOrder == <<"business_profile", "services", "business_hours", "staff">>

\* The SyncResult a task returns
TaskResult(status, processed, succeeded, failed, errors) ==
    [kind |-> "result", status |-> status, records_processed |-> processed,
     records_succeeded |-> succeeded, records_failed |-> failed,
     errors |-> errors]

\* The status _sync_services and _sync_staff give a list of n records of which
\* k were stored.
RecordsStatus(n, k) ==
    IF n - k = 0 THEN "success"
    ELSE IF k > 0 THEN "partial_success" ELSE "failed"

\* The results _sync_business_profile, _sync_services, _sync_business_hours
\* and _sync_staff can return for a direction.
SyncTaskResults(task, direction) ==
    IF direction = "dashboard_to_voice_bot"
    THEN {TaskResult("skipped", 0, 0, 0, 0)}
    ELSE IF task = "business_profile"
    THEN {TaskResult("success", 1, 1, 0, 0), TaskResult("failed", 1, 0, 0, 1)}
    ELSE IF task = "business_hours"
    THEN {TaskResult("success", n, n, 0, 0) : n \in 0..MaxRecords}
             \cup {TaskResult("failed", 0, 0, 0, 1)}
    ELSE UNION {{TaskResult(RecordsStatus(n, k), n, k, n - k, n - k) :
                    k \in 0..n} : n \in 0..MaxRecords}
             \cup {TaskResult("failed", 0, 0, 0, 1)}

\* What awaiting wait_for(sync_func(...), timeout) gives: the task's result,
\* asyncio.TimeoutError, or another exception.
SyncTaskOutcomes(task, direction) ==
    SyncTaskResults(task, direction)
        \cup {[kind |-> "timeout"], [kind |-> "raised"]}

\* The status after a task's result: a failed task makes the whole partial.
StatusUnaffectedByTask(status, task_status) == status

StatusAfterTask(status, task_status) ==
    IF task_status = "failed" THEN "partial_success" ELSE status

\* "Calculate final status"
FinalStatus(status, succeeded, failed) ==
    IF failed > 0
    THEN IF succeeded = 0 THEN "failed" ELSE "partial_success"
    ELSE status

\* The message that goes with the final status
FinalMessage(message, succeeded, failed) ==
    IF failed > 0
    THEN IF succeeded = 0 THEN "All synchronization tasks failed"
         ELSE "Some synchronization tasks failed"
    ELSE message

\* sync_business_data(business_id, config, direction) up to the first task:
\* _ensure_initialized, whose exception ends the call with a FAILED result,
\* then the list of enabled tasks.
SyncBusinessData(enabled, direction, initialized) ==
    /\ sync.pc = "idle"
    /\ sync' =
         IF initialized
         THEN [sync EXCEPT
                 !.pc = "tasks", !.direction = direction,
                 !.todo = SelectSeq(SyncTaskOrder, LAMBDA t : t \in enabled),
                 !.status = "success",
                 !.message = "Business data sync completed"]
         ELSE [sync EXCEPT
                 !.pc = "returned", !.direction = direction,
                 !.status = "failed", !.errors = 1,
                 !.message = "Critical error during business sync"]
    /\ UNCHANGED around_sync

\* One turn of the task loop.
SyncTask(outcome) ==
    /\ sync.pc = "tasks"
    /\ sync.todo # <<>>
    /\ outcome \in SyncTaskOutcomes(Head(sync.todo), sync.direction)
    /\ sync' =
         IF outcome.kind = "result"
         THEN [sync EXCEPT
                 !.todo = Tail(@),
                 !.records_processed = @ + outcome.records_processed,
                 !.records_succeeded = @ + outcome.records_succeeded,
                 !.records_failed = @ + outcome.records_failed,
                 !.errors = @ + outcome.errors,
                 !.status = StatusAfterTask(@, outcome.status),
                 !.task_failed = @ \/ outcome.status = "failed",
                 !.task_passed = @ \/ outcome.status # "failed"]
         ELSE [sync EXCEPT
                 !.todo = Tail(@),
                 !.errors = @ + 1,
                 !.records_failed = @ + 1,
                 !.status = "partial_success",
                 !.task_failed = TRUE]
    /\ UNCHANGED around_sync

\* After the loop: the final status, and the result is returned.
SyncReturn ==
    /\ sync.pc = "tasks"
    /\ sync.todo = <<>>
    /\ sync' = [sync EXCEPT
         !.pc = "returned",
         !.status = FinalStatus(@, sync.records_succeeded,
                                sync.records_failed),
         !.message = FinalMessage(@, sync.records_succeeded,
                                  sync.records_failed)]
    /\ UNCHANGED around_sync

InitSync ==
    /\ ClientAtRest
    /\ ElsewhereAtRest

NextSync ==
    \/ \E enabled \in SUBSET {SyncTaskOrder[i] : i \in 1..Len(SyncTaskOrder)},
          direction \in SyncDirection, initialized \in BOOLEAN :
          SyncBusinessData(enabled, direction, initialized)
    \/ \E task \in {SyncTaskOrder[i] : i \in 1..Len(SyncTaskOrder)},
          direction \in SyncDirection :
          \E outcome \in SyncTaskOutcomes(task, direction) : SyncTask(outcome)
    \/ SyncReturn

SpecSync == InitSync /\ [][NextSync]_vars

(***************************************************************************)
(* The voice-bot webhook endpoint.  A payload is a body in one of three    *)
(* forms; a signature header is absent (<<>>) or a string (<<s>>), where   *)
(* the string s is a number of "sha256=" prefixes followed by hex digits   *)
(* (none, or a digest).  HMAC-SHA256 is a function of the payload and the  *)
(* key without collisions.                                                 *)
(***************************************************************************)
WebhookKeys == {1, 2}

WebhookPayloads ==
    [body : {1, 2}, form : {"event", "not_json", "not_event"}]

\* hmac.new(secret, payload, hashlib.sha256).hexdigest()
Hmac(payload, key) == <<payload, key>>

WebhookDigests == {Hmac(p, k) : p \in WebhookPayloads, k \in WebhookKeys}

SignatureStrings ==
    [prefixes : 0..2, hex : {<<>>} \cup {<<d>> : d \in WebhookDigests}]

SignatureHeaders == {<<>>} \cup {<<s>> : s \in SignatureStrings}

\* settings.VOICE_BOT_WEBHOOK_SECRET: not set (<<>>), or a key
WebhookSecrets == {<<>>} \cup {<<k>> : k \in WebhookKeys}

\* bool(s) of a string
NonEmpty(s) == s.prefixes > 0 \/ s.hex # <<>>

\* signature[7:] when the signature starts with "sha256="
StripPrefix(s) == IF s.prefixes > 0 THEN [s EXCEPT !.prefixes = @ - 1] ELSE s

\* verify_webhook_signature(payload, signature, secret)
VerifyWebhookSignature(payload, signature, key) ==
    LET given == StripPrefix(signature)
        expected == Hmac(payload, key)
    IN  given = [prefixes |-> 0, hex |-> <<expected>>]

\* The status the signature check ends with (lines 446-463, 581-595), or 0
\* when the request passes it.  has_client tells whether the server reports
\* the address of the peer: the log line of the 403 branch reads
\* request.client.host, which raises AttributeError when request.client is
\* None, and "except Exception" answers that with 500.
SignatureCheck(secret, header, payload, has_client) ==
    IF secret # <<>> /\ header # <<>> /\ NonEmpty(header[1])
    THEN IF VerifyWebhookSignature(payload, header[1], secret[1])
         THEN 0
         ELSE IF has_client THEN 403 ELSE 500
    ELSE IF secret # <<>> THEN 401
    ELSE 0

\* The status parsing the payload raises, or 0 when it gives a WebhookEvent.
ParseEvent(payload) == IF payload.form = "event" THEN 0 ELSE 400

\* handle_voice_bot_webhook up to the first await of an event processor: the
\* body is read, the signature checked and the event parsed.
WebhookRequest(payload, header, has_client) ==
    /\ webhook.pc = "idle"
    /\ LET refused == SignatureCheck(webhook.secret, header, payload, has_client)
           invalid == ParseEvent(payload)
       IN  webhook' =
             IF refused # 0
             THEN [webhook EXCEPT !.pc = "responded", !.payload = <<payload>>,
                                  !.signature = header, !.status = refused]
             ELSE IF invalid # 0
             THEN [webhook EXCEPT !.pc = "responded", !.payload = <<payload>>,
                                  !.signature = header, !.status = invalid]
             ELSE [webhook EXCEPT !.pc = "processing", !.payload = <<payload>>,
                                  !.signature = header, !.parsed = TRUE]
    /\ UNCHANGED around_webhook

\* The event processor returns, or raises and the endpoint answers 500.
WebhookProcessed(ok) ==
    /\ webhook.pc = "processing"
    /\ webhook' = [webhook EXCEPT
         !.pc = "responded",
         !.processed = ok,
         !.status = IF ok THEN 200 ELSE 500]
    /\ UNCHANGED around_webhook

InitWebhook ==
    /\ ClientAtRest
    /\ redis_url = FALSE
    /\ FactoryAtRest
    /\ proxy = ProxyIdle
    /\ billing = BillingEmpty
    /\ sync = SyncIdle
    /\ limiter = LimiterNew
    /\ subscriber = SubscriberNew
    /\ \E secret \in WebhookSecrets :
          webhook = [WebhookIdle EXCEPT !.secret = secret]

NextWebhook ==
    \/ \E payload \in WebhookPayloads, header \in SignatureHeaders,
          has_client \in BOOLEAN :
          WebhookRequest(payload, header, has_client)
    \/ \E ok \in BOOLEAN : WebhookProcessed(ok)

SpecWebhook == InitWebhook /\ [][NextWebhook]_vars

(***************************************************************************)
(* RateLimitMiddleware.dispatch.  The limits of the settings are scaled    *)
(* down; time is in seconds and passes in steps of Durations.              *)
(***************************************************************************)
RateLimitPerMinute == 2
RateLimitPerHour == 3
MaxElapses == 3
MaxPassed == 4

CleanupInterval == 3600
MinuteWindow == 60
HourWindow == 3600

Durations == {20, HourWindow}

\* The instants of a list that are later than t
Later(times, t) == SelectSeq(times, LAMBDA x : x > t)

\* The clients the periodic cleanup deletes, in the order of the dict: those
\* with no request in the last hour.
InactiveClients(keys, requests, t) ==
    SelectSeq(keys, LAMBDA k : Later(requests[k], t - HourWindow) = <<>>)

\* client_id after the cleanup: "for client_id in inactive_clients" binds the
\* name of the request's client anew, and it keeps the last client deleted.
ClientIdAfterCleanup(c, inactive) ==
    IF inactive = <<>> THEN c ELSE inactive[Len(inactive)]

\* dispatch for a request of client c, up to call_next or the 429 response.
Dispatch(c) ==
    LET t == limiter.time
        cleanup == t - limiter.last_cleanup > CleanupInterval
        inactive == IF cleanup
                    THEN InactiveClients(limiter.keys, limiter.requests, t)
                    ELSE <<>>
        deleted == {inactive[i] : i \in 1..Len(inactive)}
        keys1 == SelectSeq(limiter.keys, LAMBDA k : k \notin deleted)
        requests1 == [k \in RateClients |->
                        IF k \in deleted THEN <<>> ELSE limiter.requests[k]]
        id == ClientIdAfterCleanup(c, inactive)
        kept == Later(requests1[id], t - HourWindow)
        keys2 == IF \E i \in 1..Len(keys1) : keys1[i] = id
                 THEN keys1 ELSE Append(keys1, id)
        minute_requests == Later(kept, t - MinuteWindow)
        limited == \/ Len(minute_requests) >= RateLimitPerMinute
                   \/ Len(kept) >= RateLimitPerHour
    IN  /\ Len(limiter.passed[c]) < MaxPassed
        /\ limiter' = [limiter EXCEPT
             !.keys = keys2,
             !.requests = [requests1 EXCEPT ![id] =
                             IF limited THEN kept ELSE Append(kept, t)],
             !.last_cleanup = IF cleanup THEN t ELSE @,
             !.passed[c] = IF limited THEN @ ELSE Append(@, t),
             !.status = IF limited THEN 429 ELSE 200]
        /\ UNCHANGED around_limiter

\* Time passes.
Elapse(d) ==
    /\ limiter.elapses < MaxElapses
    /\ limiter' = [limiter EXCEPT !.time = @ + d, !.elapses = @ + 1]
    /\ UNCHANGED around_limiter

InitLimiter ==
    /\ ClientAtRest
    /\ ElsewhereAtRest

NextLimiter ==
    \/ \E c \in RateClients : Dispatch(c)
    \/ \E d \in Durations : Elapse(d)

SpecLimiter == InitLimiter /\ [][NextLimiter]_vars

(***************************************************************************)
(* PhoneConfigSubscriber, for one phone.  Its methods are coroutines: one  *)
(* action per stretch between the awaits of channel.subscribe() and of     *)
(* remove_channel().  A channel of the phone is named by the subscription  *)
(* its handlers are bound to; it delivers events from the moment           *)
(* channel.subscribe() returns until remove_channel() returns.             *)
(***************************************************************************)
MaxSubscribes == 2

\* The key of the phone's channel in self.channels
PhoneKey == "phone"

\* channel_key in self.channels
HasKey(channels, key) == \E i \in 1..Len(channels) : channels[i].key = key

\* self.channels[channel_key]
ChannelAt(channels, key) ==
    channels[CHOOSE i \in 1..Len(channels) : channels[i].key = key]

\* self.channels[channel_key] = channel: a key that is present keeps its
\* place, a new one goes last.
SetChannel(channels, key, bound) ==
    IF HasKey(channels, key)
    THEN [i \in 1..Len(channels) |->
            IF channels[i].key = key THEN [key |-> key, bound |-> bound]
            ELSE channels[i]]
    ELSE Append(channels, [key |-> key, bound |-> bound])

\* del self.channels[channel_key]: the entry is emptied and keeps its place
\* in the table; a key stored later goes after it (the table is not rebuilt
\* while it has had no more than five entries).
DelChannel(channels, key) ==
    [i \in 1..Len(channels) |->
        IF channels[i].key = key THEN [key |-> "", bound |-> 0] ELSE channels[i]]

\* len(self.channels)
UsedChannels(channels) ==
    Cardinality({i \in 1..Len(channels) : channels[i].key # ""})

\* A coroutine that is not running
NotRunning == [pc |-> "idle", subscription |-> 0]

\* _setup_business_channel up to its await (lines 135-149), and the return
\* of subscribe_to_phone when the business has its channel (lines 80-81).
SetupBusinessChannel(s, b, n) ==
    IF HasKey(s.channels, b)
    THEN [s EXCEPT !.subscribing[b] = NotRunning, !.returned = @ \cup {n}]
    ELSE [s EXCEPT !.subscribing[b] = [pc |-> "business", subscription |-> n]]

\* subscribe_to_phone(phone, business, callbacks) up to its first await
\* (lines 64-75, 89-130): the subscription is registered; when the phone has
\* no channel in self.channels one is created with handlers bound to this
\* subscription, and the caller awaits channel.subscribe().
SubscribeToPhone(b) ==
    /\ subscriber.subscribing[b].pc = "idle"
    /\ subscriber.made < MaxSubscribes
    /\ LET n == subscriber.made + 1
           registered == [subscriber EXCEPT
                            !.made = n, !.subscriptions[b] = <<n>>,
                            !.last = "subscribe", !.invoked = {}, !.raised = ""]
       IN  subscriber' =
             IF HasKey(subscriber.channels, PhoneKey)
             THEN SetupBusinessChannel(registered, b, n)
             ELSE [registered EXCEPT
                     !.subscribing[b] = [pc |-> "phone", subscription |-> n]]
    /\ UNCHANGED around_subscriber

\* channel.subscribe() of the phone's channel returned or raised (lines
\* 130-131, 78): the channel delivers events and is stored under the phone's
\* key, whatever is stored there; raised, the exception leaves
\* subscribe_to_phone.
PhoneChannelSubscribed(b, ok) ==
    /\ subscriber.subscribing[b].pc = "phone"
    /\ LET n == subscriber.subscribing[b].subscription
           quiet == [subscriber EXCEPT !.last = "subscribe", !.invoked = {},
                                       !.raised = ""]
       IN  subscriber' =
             IF ok
             THEN SetupBusinessChannel(
                     [quiet EXCEPT !.live = @ \cup {n},
                                   !.channels = SetChannel(@, PhoneKey, n)], b, n)
             ELSE [quiet EXCEPT !.subscribing[b] = NotRunning,
                                !.raised = "Exception"]
    /\ UNCHANGED around_subscriber

\* channel.subscribe() of the business channel returned or raised (lines
\* 149-150, 80-81).
BusinessChannelSubscribed(b, ok) ==
    /\ subscriber.subscribing[b].pc = "business"
    /\ LET n == subscriber.subscribing[b].subscription
           quiet == [subscriber EXCEPT !.last = "subscribe", !.invoked = {},
                                       !.raised = "",
                                       !.subscribing[b] = NotRunning]
       IN  subscriber' =
             IF ok
             THEN [quiet EXCEPT !.channels = SetChannel(@, b, 0),
                                !.returned = @ \cup {n}]
             ELSE [quiet EXCEPT !.raised = "Exception"]
    /\ UNCHANGED around_subscriber

\* unsubscribe_from_phone(phone, business) up to its await (lines 154-167):
\* the subscription is deleted; when no subscription names the phone any more
\* and the phone has a channel in self.channels, the caller awaits
\* remove_channel of that channel.  subscription is the one that was deleted,
\* channel the one whose removal is awaited.
UnsubscribeFromPhone(b) ==
    /\ subscriber.unsubscribing[b].pc = "idle"
    /\ LET present == subscriber.subscriptions[b] # <<>>
           n == IF present THEN subscriber.subscriptions[b][1] ELSE 0
           still == \E o \in Businesses \ {b} : subscriber.subscriptions[o] # <<>>
           quiet == [subscriber EXCEPT !.last = "unsubscribe", !.invoked = {},
                                       !.raised = "",
                                       !.subscriptions[b] = <<>>]
       IN  subscriber' =
             IF present /\ ~still /\ HasKey(subscriber.channels, PhoneKey)
             THEN [quiet EXCEPT !.unsubscribing[b] =
                     [pc |-> "removing", subscription |-> n,
                      channel |-> ChannelAt(subscriber.channels, PhoneKey).bound]]
             ELSE [quiet EXCEPT !.removed = @ \cup (IF present THEN {n} ELSE {})]
    /\ UNCHANGED around_subscriber

\* remove_channel returned (lines 167-169): the channel delivers no more
\* events, and the phone's key is deleted from self.channels; when the key
\* is no longer there the del raises KeyError, which leaves
\* unsubscribe_from_phone.
PhoneChannelRemoved(b) ==
    /\ subscriber.unsubscribing[b].pc = "removing"
    /\ LET quiet == [subscriber EXCEPT
                       !.last = "unsubscribe", !.invoked = {},
                       !.live = @ \ {subscriber.unsubscribing[b].channel},
                       !.unsubscribing[b] =
                          [pc |-> "idle", subscription |-> 0, channel |-> 0]]
       IN  subscriber' =
             IF HasKey(subscriber.channels, PhoneKey)
             THEN [quiet EXCEPT
                     !.raised = "",
                     !.channels = DelChannel(@, PhoneKey),
                     !.removed = @ \cup {subscriber.unsubscribing[b].subscription}]
             ELSE [quiet EXCEPT !.raised = "KeyError"]
    /\ UNCHANGED around_subscriber

\* The loop "for channel in self.channels.values()" of cleanup asks its
\* iterator for the next channel, and the rest of cleanup (lines 232-237).
\* used is len(self.channels) when the loop began, len the number of
\* channels the iterator has still to give, at the entries it has passed.
\* The iterator raises RuntimeError when len(self.channels) is not what it
\* was, or when it finds an entry after it has given as many as there were;
\* the exception leaves cleanup.  Otherwise remove_channel of the next
\* channel is awaited; or, when no entry is left, the channels and the
\* subscriptions are cleared.
CleanupNext(s, used, len, at) ==
    LET left == {i \in (at + 1)..Len(s.channels) : s.channels[i].key # ""}
        next == CHOOSE i \in left : \A j \in left : i <= j
    IN  IF UsedChannels(s.channels) # used
        THEN [s EXCEPT !.cleanup = CleanupIdle, !.raised = "RuntimeError"]
        ELSE IF left = {}
        THEN [s EXCEPT !.cleanup = CleanupIdle, !.raised = "",
                       !.channels = <<>>,
                       !.subscriptions = [b \in Businesses |-> <<>>]]
        ELSE IF len = 0
        THEN [s EXCEPT !.cleanup = CleanupIdle, !.raised = "RuntimeError"]
        ELSE [s EXCEPT !.raised = "",
                       !.cleanup = [pc |-> "removing", used |-> used, len |-> len - 1,
                                    at |-> next, bound |-> s.channels[next].bound]]

\* cleanup() up to its first await (lines 222-233).
Cleanup ==
    /\ subscriber.cleanup.pc = "idle"
    /\ subscriber' = CleanupNext([subscriber EXCEPT !.last = "cleanup", !.invoked = {}],
                                 UsedChannels(subscriber.channels),
                                 UsedChannels(subscriber.channels), 0)
    /\ UNCHANGED around_subscriber

\* remove_channel of cleanup returned (line 233): the channel delivers no
\* more events, and the loop goes on.
CleanupChannelRemoved ==
    /\ subscriber.cleanup.pc = "removing"
    /\ subscriber' = CleanupNext(
         [subscriber EXCEPT !.last = "cleanup", !.invoked = {},
                            !.live = @ \ {subscriber.cleanup.bound}],
         subscriber.cleanup.used, subscriber.cleanup.len, subscriber.cleanup.at)
    /\ UNCHANGED around_subscriber

\* An update event for the phone arrives: the handlers of every channel of
\* the phone that delivers events call the callbacks of the subscription they
\* are bound to (lines 96-121).
PhoneEvent ==
    /\ subscriber' = [subscriber EXCEPT !.last = "event", !.raised = "",
                                        !.invoked = subscriber.live]
    /\ UNCHANGED around_subscriber

InitSubscriber ==
    /\ ClientAtRest
    /\ ElsewhereAtRest

NextSubscriber ==
    \/ \E b \in Businesses : SubscribeToPhone(b)
    \/ \E b \in Businesses, ok \in BOOLEAN : PhoneChannelSubscribed(b, ok)
    \/ \E b \in Businesses, ok \in BOOLEAN : BusinessChannelSubscribed(b, ok)
    \/ \E b \in Businesses : UnsubscribeFromPhone(b)
    \/ \E b \in Businesses : PhoneChannelRemoved(b)
    \/ Cleanup
    \/ CleanupChannelRemoved
    \/ PhoneEvent

SpecSubscriber == InitSubscriber /\ [][NextSubscriber]_vars

(***************************************************************************)
(* Properties                                                              *)
(***************************************************************************)
Done(p) == calls[p].pc = "done"
Failed(p) == Done(p) /\ calls[p].error.cls # "none"
Answer(status) == [kind |-> "http", status |-> status]

\* network error, timeout or upstream 5xx
RetryableAnswer(a) ==
    a.kind \in {"timeout", "network"} \/ (a.kind = "http" /\ a.status >= 500)

NonDecreasing(s) == \A i \in 1..(Len(s) - 1) : s[i] <= s[i + 1]

\* C1: an invoke whose every send fails with a retryable failure performs
\* exactly max_retries sends before it returns its error, and the delays
\* between the sends are non-decreasing and never exceed the maximum delay.
C1_RetryableFailureSentMaxRetriesTimes ==
    \A p \in Procs :
        (Failed(p) /\ \A a \in calls[p].statuses : RetryableAnswer(a))
        => /\ calls[p].sends = config.max_retries
           /\ Len(calls[p].slept) = config.max_retries - 1
           /\ NonDecreasing(calls[p].slept)
           /\ \A i \in DOMAIN calls[p].slept : calls[p].slept[i] <= WaitMax

\* C2: an invoke that was answered 401 has performed exactly one more send,
\* with a token generated after the rejected one, before it surfaces an error.
C2_AuthFailureRenewsAndSendsOnceMore ==
    \A p \in Procs :
        (Failed(p) /\ Answer(401) \in calls[p].statuses) => calls[p].sends = 2

\* C3: when the upstream answers only 401, the invoke ends after at most two
\* sends and the proxy answers its caller 502, never 401.
C3_PersistentAuthFailureIsBadGateway ==
    \A p \in Procs :
        (calls[p].statuses = {Answer(401)} /\ ~calls[p].health)
        => /\ calls[p].sends <= 2
           /\ Done(p)
           /\ calls[p].http = 502

C3_Witness ==
    \E p \in Procs :
        /\ Done(p)
        /\ calls[p].statuses = {Answer(401)}
        /\ calls[p].raised.status_code = <<401>>
        /\ calls[p].http = 502

\* C4: the callers that ask for the auth header at one clock reading, with no
\* invalidation in between, cause at most one token to be signed, and each
\* header carries a token that has not expired.
C4_OneTokenSignedForConcurrentCallers ==
    /\ signed <= 1
    /\ \A p \in Procs : calls[p].pc = "request" => calls[p].header_valid

\* C5: for a client built by the factory with a cache store configured, a GET
\* issued while the last successful identical cacheable GET is younger than
\* its TTL is answered from the cache without a send.
C5_FactoryClientServesFreshEntryFromCache ==
    (via_factory /\ redis_client # "None")
    => \A p \in Procs :
          (calls[p].expect /\ calls[p].pc \notin {"attempt", "cache_get"})
          => (calls[p].from_cache /\ calls[p].sends = 0)

\* C6: a lookup returns an entry only at an instant before the entry's expiry;
\* a lookup that finds an entry at or after its expiry is a miss that goes on
\* to delete the key, after which the store holds nothing for it.
C6_EntryReturnedOnlyBeforeExpiry ==
    /\ [](\A p \in Procs :
            calls[p].hit_at # <<>> => calls[p].hit_at[1] < calls[p].hit_at[2])
    /\ [][\A p \in Procs :
            (/\ calls[p].pc = "cache_get"
             /\ calls'[p] # calls[p]
             /\ redis_client = "Redis"
             /\ redis[calls[p].cache_key[1]] # <<>>
             /\ now >= redis[calls[p].cache_key[1]][1].expires_at)
            => (calls'[p].pc = "cache_delete" /\ ~calls'[p].from_cache)]_vars
    /\ [][\A p \in Procs :
            (calls[p].pc = "cache_delete" /\ calls'[p] # calls[p])
            => redis'[calls[p].cache_key[1]] = <<>>]_vars

\* A lookup at exactly the expiry instant found the entry and is deleting it.
C6_Witness ==
    \E p \in Procs :
        /\ calls[p].pc = "cache_delete"
        /\ redis[calls[p].cache_key[1]] # <<>>
        /\ redis[calls[p].cache_key[1]][1].expires_at = now

\* C7: a call whose method is not GET never reads or writes the cache, whatever
\* its use_cache flag, and none of its steps changes the cache store.
C7_NonGetLeavesCacheAlone ==
    /\ [](\A p \in Procs :
            calls[p].method # "GET"
            => /\ calls[p].cache_reads = 0
               /\ calls[p].cache_writes = 0
               /\ calls[p].cache_key = <<>>
               /\ calls[p].pc \notin {"cache_get", "cache_delete", "cache_set"})
    /\ [][\A p \in Procs :
            (calls[p].method # "GET" /\ calls'[p] # calls[p]) => redis' = redis]_vars

C7_Witness ==
    \E p \in Procs :
        /\ Done(p)
        /\ calls[p].method = "POST"
        /\ calls[p].use_cache
        /\ calls[p].error.cls = "none"
        /\ redis_client = "Redis"

\* C8: a call writes a cache entry only after a successful response; a call
\* that ends in an error has written none.
C8_OnlySuccessIsCached ==
    \A p \in Procs :
        /\ calls[p].cache_writes > 0
           => (calls[p].raised.cls = "none" /\ calls[p].statuses = {Answer(200)})
        /\ Failed(p) => (calls[p].cache_writes = 0 /\ calls[p].set_entry = <<>>)

C8_Witness ==
    \E p \in Procs :
        /\ Failed(p)
        /\ UsesCache(calls[p].method, calls[p].use_cache)
        /\ redis_client = "Redis"
        /\ calls[p].statuses = {Answer(503)}
        /\ calls[p].cache_writes = 0

PairSet(params) == {params[i] : i \in DOMAIN params}

\* C9: two calls to one endpoint whose params hold the same name/value pairs
\* in a different order compute the same cache key.
C9_CacheKeyIgnoresParamOrder ==
    \A p, q \in Procs :
        (/\ calls[p].cache_key # <<>>
         /\ calls[q].cache_key # <<>>
         /\ calls[p].endpoint = calls[q].endpoint
         /\ PairSet(calls[p].params) = PairSet(calls[q].params))
        => calls[p].cache_key = calls[q].cache_key

C9_Witness ==
    \E p, q \in Procs :
        /\ calls[p].cache_key # <<>>
        /\ calls[q].cache_key # <<>>
        /\ calls[p].params # calls[q].params
        /\ PairSet(calls[p].params) = PairSet(calls[q].params)
        /\ calls[p].cache_key = calls[q].cache_key

\* an upstream 4xx other than 401
NonRetryableAnswer(a) ==
    a.kind = "http" /\ a.status >= 400 /\ a.status < 500 /\ a.status # 401

\* C10: a call answered with a 4xx other than 401 has sent once, has not slept
\* and is over.
C10_ClientErrorIsSentOnce ==
    \A p \in Procs :
        (\E a \in calls[p].statuses : NonRetryableAnswer(a))
        => /\ calls[p].sends = 1
           /\ calls[p].slept = <<>>
           /\ Failed(p)

C10_Witness ==
    \E p \in Procs :
        /\ Failed(p)
        /\ calls[p].statuses = {Answer(400)}
        /\ calls[p].sends = 1

\* C11: a call that was answered 503 is not failed while retry budget remains:
\* it fails only after max_retries retries, and a call that succeeded after
\* three 503 answers sent four times and slept 2 s, 4 s and 8 s.
C11_Transient5xxIsRetriedWithinBudget ==
    \A p \in Procs :
        /\ (Failed(p) /\ Answer(503) \in calls[p].statuses)
           => calls[p].sends = config.max_retries + 1
        /\ (Done(p) /\ ~Failed(p) /\ Answer(503) \in calls[p].statuses
               /\ calls[p].sends = config.max_retries + 1)
           => calls[p].slept = <<2, 4, 8>>

\* an upstream HTTP error response: 401, 404, another 4xx or a 5xx
ErrorStatuses == {400, 401, 404, 503}

\* C12: the error a call returns for an upstream error response carries the
\* status the upstream sent.
C12_ErrorCarriesUpstreamStatus ==
    \A p \in Procs : \A s \in ErrorStatuses :
        (Failed(p) /\ calls[p].statuses = {Answer(s)})
        => calls[p].error.status_code = <<s>>

\* C13: at the proxy boundary an upstream 404 is answered 404 and another
\* upstream 4xx except 401 is answered with a 4xx; neither is answered 5xx.
C13_ClientErrorsStayClientErrors ==
    \A p \in Procs :
        /\ (Failed(p) /\ calls[p].statuses = {Answer(404)}) => calls[p].http = 404
        /\ (Failed(p) /\ \E a \in calls[p].statuses : NonRetryableAnswer(a))
           => (calls[p].http >= 400 /\ calls[p].http < 500)

\* C14: at the proxy boundary an upstream 5xx or a request timeout is answered
\* 502, never a 4xx and never 500.
C14_UnavailableIsBadGateway ==
    \A p \in Procs :
        (Failed(p) /\ ~calls[p].health
            /\ \E a \in calls[p].statuses :
                   a.kind = "timeout" \/ (a.kind = "http" /\ a.status >= 500))
        => calls[p].http = 502

C14_Witness ==
    \E p \in Procs :
        /\ Failed(p)
        /\ calls[p].statuses = {[kind |-> "timeout", status |-> 0]}
        /\ calls[p].error.status_code = <<>>
        /\ calls[p].http = 502

\* C15: whatever the try block raised (transport error, timeout, error
\* status, undecodable body), what the call holds for its caller is a
\* VoiceBotAPIError.
C15_OnlyTypedErrorsEscape ==
    \A p \in Procs :
        calls[p].raised.cls # "none" => calls[p].error.cls = "VoiceBotAPIError"

C15_Witness ==
    \E p \in Procs :
        /\ Failed(p)
        /\ calls[p].raised.cls = "ConnectError"
        /\ calls[p].error.cls = "VoiceBotAPIError"

\* the call is suspended in the outbound request or in a cache store access
Suspended(p) == calls[p].pc \in {"request", "cache_get", "cache_delete", "cache_set"}

\* C16: while a call's outbound request or cache store access is in progress
\* the token lock is free, so no other call waits for it to build its header.
C16_LockFreeWhileCallSuspended ==
    \A p \in Procs : Suspended(p) => lock = <<>>

\* Two calls are in their outbound request at once: the second built its
\* header while the first was waiting for its answer.
C16_Witness ==
    \E p, q \in Procs :
        /\ p # q
        /\ calls[p].pc = "request"
        /\ calls[q].pc = "request"
        /\ calls[p].header # <<>>
        /\ calls[q].header # <<>>
        /\ lock = <<>>

\* C17 as stated: a header built while no token is cached, after a call was
\* answered 401, never holds the token that call was rejected with.
C17_NextHeaderIsNotTheRejectedToken ==
    [][\A p, q \in Procs :
          (/\ jwt_token = <<>>
           /\ calls'[p].sends = calls[p].sends + 1
           /\ calls[q].raised.status_code = <<401>>)
          => calls'[p].header # calls[q].header]_vars

\* C17 amended: the step that takes a 401 answer leaves the cached token and its
\* expiry empty and the lock free; a step that builds a header while no token
\* is cached signs a token at that instant and puts that token in the header;
\* and that token is not the one a call was rejected with, provided the
\* rejected one was signed at an earlier reading of the clock.
C17_RejectedTokenIsClearedAndRegenerated ==
    /\ [][\A p \in Procs :
            (/\ calls[p].pc = "request"
             /\ calls'[p].pc # "request"
             /\ calls'[p].raised.status_code = <<401>>)
            => (jwt_token' = <<>> /\ token_expires_at' = <<>> /\ lock' = <<>>)]_vars
    /\ [][\A p \in Procs :
            (jwt_token = <<>> /\ calls'[p].sends = calls[p].sends + 1)
            => (/\ jwt_token' = GeneratedToken(now)
                /\ token_expires_at' = GeneratedExpiry(now)
                /\ calls'[p].header = GeneratedToken(now)
                /\ signed' = signed + 1)]_vars
    /\ [][\A p, q \in Procs :
            (/\ jwt_token = <<>>
             /\ calls'[p].sends = calls[p].sends + 1
             /\ calls[q].raised.status_code = <<401>>
             /\ calls[q].header # <<>>
             /\ calls[q].header[1] < now)
            => calls'[p].header # calls[q].header]_vars

\* One call was answered 401, and the other call has since been sent, at a
\* later reading of the clock, with the only token signed after that.
C17_Witness ==
    \E p, q \in Procs :
        /\ Failed(p)
        /\ calls[p].statuses = {Answer(401)}
        /\ calls[p].raised.status_code = <<401>>
        /\ calls[q].pc = "request"
        /\ calls[q].header # <<>>
        /\ calls[q].header # calls[p].header
        /\ jwt_token = calls[q].header
        /\ signed = 1

\* C18: whenever a call builds its header, whatever invalidations (401 answers,
\* close()) run beside it, the header holds the token that is cached at that
\* moment, and that token is not empty.
C18_HeaderBuiltFromCurrentToken ==
    /\ [](\A p \in Procs :
            calls[p].header # <<>> \/ calls[p].sends > 0
            => (calls[p].header # <<>> /\ calls[p].header_current))
    /\ [][\A p \in Procs :
            calls'[p].sends = calls[p].sends + 1
            => (jwt_token' # <<>> /\ calls'[p].header = jwt_token')]_vars

\* A request is in flight with its token in the header, and a close() that
\* began after it was sent has run to its end and cleared the cached token.
C18_Witness ==
    \E p \in Procs :
        /\ calls[p].pc = "request"
        /\ calls[p].header # <<>>
        /\ jwt_token = <<>>
        /\ http_client = "closed"
        /\ close_pc = "idle"

\* C19: the configuration of a client has a base URL and a signing secret that
\* are not empty and a token lifetime, timeout, retry count and cache TTL that
\* are positive.
C19_ConfigFieldsNonEmptyAndPositive ==
    /\ config.base_url # ""
    /\ config.jwt_secret # ""
    /\ config.jwt_expire_minutes > 0
    /\ config.timeout > 0
    /\ config.max_retries > 0
    /\ config.cache_ttl > 0

\* C20: a health check never reads or writes the cache and none of its steps
\* changes the cache store, it sends no more often than the retry budget of
\* any call allows, and it ends with a report: "healthy" when the call
\* succeeded, "unhealthy" when it failed.
C20_HealthCheckIsUncachedAndReports ==
    /\ [](\A p \in Procs :
            calls[p].health
            => /\ calls[p].cache_reads = 0
               /\ calls[p].cache_writes = 0
               /\ calls[p].cache_key = <<>>
               /\ ~calls[p].from_cache
               /\ calls[p].pc \notin {"cache_get", "cache_delete", "cache_set"}
               /\ calls[p].sends <= StopAfterAttempt
               /\ (Done(p) => /\ calls[p].report \in {"healthy", "unhealthy"}
                              /\ (calls[p].report = "healthy")
                                 <=> (calls[p].raised.cls = "none")))
    /\ [][\A p \in Procs :
            (calls[p].health /\ calls'[p] # calls[p]) => redis' = redis]_vars

\* A health check of a client with a cache store ended "unhealthy" after one send.
C20_Witness ==
    \E p \in Procs :
        /\ Done(p)
        /\ calls[p].health
        /\ redis_client = "Redis"
        /\ calls[p].statuses = {Answer(503)}
        /\ calls[p].sends = 1
        /\ calls[p].report = "unhealthy"

\* the call ended because the token could not be signed
TokenFailure(p) == calls[p].raised = JwtEncodeError

\* C21: a call that could not sign its token is over at once with that error:
\* it was not retried, it slept for nothing, it sent nothing, and the step in
\* which the signing failed left the cached token and its expiry as they were.
C21_TokenFailureSurfacedUnretried ==
    /\ [](\A p \in Procs :
            TokenFailure(p)
            => /\ Done(p)
               /\ calls[p].error = JwtEncodeError
               /\ calls[p].attempt = 1
               /\ calls[p].slept = <<>>
               /\ calls[p].sends = 0
               /\ calls[p].statuses = {}
               /\ calls[p].header = <<>>)
    /\ [][\A p \in Procs :
            (TokenFailure(p)' /\ ~TokenFailure(p))
            => (jwt_token' = jwt_token /\ token_expires_at' = token_expires_at)]_vars

C21_Witness ==
    \E p \in Procs :
        /\ Done(p)
        /\ TokenFailure(p)
        /\ JwtEncodeRaises(config)
        /\ calls[p].sends = 0
        /\ jwt_token = <<>>
        /\ token_expires_at = <<>>

\* the call looked its key up, found nothing to return and went on
Missed(p) ==
    /\ calls[p].cache_key # <<>>
    /\ calls[p].cache_reads = 1
    /\ ~calls[p].from_cache
    /\ calls[p].pc \notin {"idle", "attempt", "cache_get", "cache_delete"}

\* C22: reads of one cache key are not coalesced.  A lookup that finds nothing
\* is followed by that call's own send, whatever else is in flight; and when
\* two calls for one key have both missed and both been answered 200, each
\* has sent once, stored its own entry and holds the payload with no error.
C22_IdenticalReadsNotCoalesced ==
    /\ [](\A p, q \in Procs :
            (/\ p # q
             /\ redis_client # "None"
             /\ Missed(p) /\ Missed(q)
             /\ calls[p].cache_key = calls[q].cache_key
             /\ Done(p) /\ Done(q)
             /\ calls[p].statuses = {Answer(200)}
             /\ calls[q].statuses = {Answer(200)})
            => (/\ calls[p].sends = 1
                /\ calls[p].cache_writes = 1
                /\ calls[p].error.cls = "none"
                /\ calls[p].result \in Payloads))
    /\ [][\A p \in Procs :
            (/\ calls[p].pc = "cache_get"
             /\ redis[calls[p].cache_key[1]] = <<>>
             /\ calls'[p] # calls[p])
            => (calls'[p].pc = "request" /\ calls'[p].sends = calls[p].sends + 1)]_vars

\* Two calls for one key are in their requests at once, each after a lookup
\* in a working store that held nothing.
C22_Witness ==
    \E p, q \in Procs :
        /\ p # q
        /\ redis_client = "Redis"
        /\ Missed(p) /\ Missed(q)
        /\ calls[p].cache_key = calls[q].cache_key
        /\ calls[p].hit_at = <<>> /\ calls[q].hit_at = <<>>
        /\ calls[p].pc = "request"
        /\ calls[q].pc = "request"

\* C23: while no instance has been closed, at most one instance has been
\* created, and every caller that holds an instance holds the one the global
\* names.
C23_OneClientForAllCallers ==
    closed = {}
    => /\ created <= 1
       /\ \A g \in Getters :
            getters[g].received # <<>> => getters[g].received = voice_bot_client

\* With REDIS_URL set (the creating caller suspends in ping() under the lock),
\* two callers hold the one instance that was created.
C23_Witness ==
    \E g, h \in Getters :
        /\ g # h
        /\ redis_url
        /\ closed = {}
        /\ created = 1
        /\ getters[g].received = <<1>>
        /\ getters[h].received = <<1>>

\* C24: a request of a user without a business profile is answered 404 and
\* has made no call to the Voice Bot client.
C24_NoProfileIsNotFound ==
    (proxy.pc = "done" /\ ~proxy.profile)
    => (proxy.http = 404 /\ proxy.upstream_calls = 0)

C26_SyncFailsGracefully ==
    /\ ~sync.raised
    /\ sync.pc = "returned" =>
         /\ sync.status \in {"success", "partial_success", "failed"}
         /\ sync.task_failed =>
              sync.status \in {"failed", "partial_success"}

\* A call has returned in which one task returned a failed result that counts
\* no failed record while another task stored records.
C26_Witness ==
    /\ sync.pc = "returned"
    /\ sync.task_failed
    /\ sync.records_failed = 0
    /\ sync.records_succeeded > 0

\* The header is the digest of the payload under the secret, bare or behind
\* one "sha256=" prefix.
SignedBy(header, payload, secret) ==
    /\ header # <<>>
    /\ header[1].hex = <<Hmac(payload, secret[1])>>
    /\ header[1].prefixes \in {0, 1}

\* C27: with a webhook secret configured, an event is parsed and processed
\* only if the signature header is the HMAC-SHA256 of the raw payload under
\* the secret; a request without the header is answered 401 and one with
\* another signature 403, and neither is parsed or processed.
C27_OnlySignedEventsProcessed ==
    (webhook.secret # <<>> /\ webhook.pc # "idle") =>
        LET signed_ok ==
                SignedBy(webhook.signature, webhook.payload[1], webhook.secret)
        IN  /\ (webhook.parsed \/ webhook.processed) => signed_ok
            /\ webhook.signature = <<>> =>
                 webhook.status = 401 /\ ~webhook.parsed
            /\ (webhook.signature # <<>> /\ NonEmpty(webhook.signature[1])
                  /\ ~signed_ok) =>
                 webhook.status = 403 /\ ~webhook.parsed

\* C28: _get_auth_headers generates a token exactly when none is cached or
\* the time is within five minutes of the cached token's expiry; otherwise
\* the header carries the cached token and nothing is generated.  A generated
\* token expires its configured lifetime after its generation.
C28_TokenGeneratedExactlyWhenDue ==
    [][\A p \in Procs :
         calls'[p].sends = calls[p].sends + 1 =>
           IF \/ jwt_token = <<>>
              \/ now >= token_expires_at[1] - RenewalMinutes * SecondsPerMinute
           THEN /\ jwt_token' = <<now>>
                /\ token_expires_at' =
                     <<now + config.jwt_expire_minutes * SecondsPerMinute>>
                /\ signed' = Min(signed + 1, 2)
                /\ calls'[p].header = <<now>>
           ELSE /\ jwt_token' = jwt_token
                /\ token_expires_at' = token_expires_at
                /\ signed' = signed
                /\ calls'[p].header = jwt_token]_vars

\* A token generated at the border of the renewal window of its predecessor
\* is carried by two requests and was signed once.
C28_Witness ==
    /\ now = TickSeconds
    /\ jwt_token = <<now>>
    /\ token_expires_at = <<now + config.jwt_expire_minutes * SecondsPerMinute>>
    /\ config.jwt_expire_minutes > RenewalMinutes
    /\ signed = 1
    /\ \A p \in Procs : calls[p].pc = "request" /\ calls[p].header = jwt_token

\* C29: a 401 answer to a request sent with token T clears the cached token
\* only if T is still the cached token; a newer token that another call
\* generated meanwhile is not discarded.
C29_StaleRejectionKeepsNewerToken ==
    [][\A p \in Procs :
         (/\ calls[p].pc = "request"
          /\ calls'[p].pc # "request"
          /\ jwt_token # <<>>
          /\ jwt_token' = <<>>)
           => calls[p].header = jwt_token]_vars

\* C30: the delete of a lookup that found an expired entry removes only an
\* expired entry, also when another call stores the same key in between.
C30_EvictionRemovesOnlyExpired ==
    [][\A k \in AllKeys :
         (/\ redis[k] # <<>>
          /\ redis'[k] = <<>>
          /\ \E p \in Procs : calls[p].pc = "cache_delete"
                                /\ calls'[p].pc # "cache_delete")
           => now >= redis[k][1].expires_at]_vars

\* C31: a lookup that finds an entry that has not expired is a hit whatever
\* the entry's payload, the empty payload included: the call returns the
\* cached payload and sends nothing.
C31_UnexpiredEntryIsAlwaysAHit ==
    \A p \in Procs :
        calls[p].hit_at # <<>> => (calls[p].from_cache /\ calls[p].sends = 0)

\* C32: an error of the cache store never fails a call.  With a store whose
\* get and set raise, a cacheable call sends once per attempt like an
\* uncached one, and when the upstream answered with success the call
\* returns that payload.
C32_StoreFailureNeverFailsCall ==
    redis_client = "Down" =>
        \A p \in Procs :
            Done(p) =>
                /\ ~calls[p].from_cache
                /\ calls[p].sends = calls[p].attempt
                /\ calls[p].raised.cls = "none" =>
                     /\ calls[p].error.cls = "none"
                     /\ calls[p].result \in Payloads
                /\ calls[p].error.cls # "none" =>
                     calls[p].error.cls = "VoiceBotAPIError"

\* A cacheable call whose lookup and whose store both raised has returned
\* the upstream's payload after one send.
C32_Witness ==
    /\ redis_client = "Down"
    /\ \E p \in Procs :
          /\ Done(p)
          /\ calls[p].cache_reads = 1
          /\ calls[p].cache_writes = 1
          /\ calls[p].sends = 1
          /\ calls[p].error.cls = "none"
          /\ calls[p].result = "P1"

\* C33: get_voice_bot_client never returns an instance whose transport is
\* closed, whatever calls of get_voice_bot_client, close_voice_bot_client,
\* DataSyncService.close and close_data_sync_service came before.
C33_FactoryNeverReturnsClosedClient ==
    \A g \in Getters : getters[g].pc = "got" => getters[g].usable

\* C34: when every enabled task of sync_business_data failed, the result has
\* status failed and the message "All synchronization tasks failed"; the
\* status partial_success is returned only when a record was synchronized.
C34_AllTasksFailedIsFailed ==
    sync.pc = "returned" =>
        /\ (sync.task_failed /\ ~sync.task_passed) =>
             /\ sync.status = "failed"
             /\ sync.message = "All synchronization tasks failed"
        /\ sync.status = "partial_success" => sync.records_succeeded > 0

\* The requests of a list of instants that fall in the window of the given
\* length that ends with the i-th of them
InWindow(times, i, length) ==
    {j \in 1..Len(times) : times[j] > times[i] - length /\ times[j] <= times[i]}

\* C35: of the requests of one client, at most RATE_LIMIT_PER_MINUTE go
\* downstream in any 60 seconds and at most RATE_LIMIT_PER_HOUR in any 3600
\* seconds.
C35_PassedRequestsWithinLimits ==
    \A c \in RateClients :
        \A i \in 1..Len(limiter.passed[c]) :
            /\ Cardinality(InWindow(limiter.passed[c], i, MinuteWindow))
                  <= RateLimitPerMinute
            /\ Cardinality(InWindow(limiter.passed[c], i, HourWindow))
                  <= RateLimitPerHour

\* C36: an update event for the phone invokes the callbacks of every
\* subscription that is current for the phone and whose subscribe_to_phone
\* has returned, also when the phone was subscribed before, and invokes no
\* callback of a subscription whose unsubscribe_from_phone has returned.
C36_EventReachesCurrentSubscriptions ==
    subscriber.last = "event" =>
        /\ \A b \in Businesses :
              (/\ subscriber.subscriptions[b] # <<>>
               /\ subscriber.subscriptions[b][1] \in subscriber.returned)
                  => subscriber.subscriptions[b][1] \in subscriber.invoked
        /\ subscriber.invoked \cap subscriber.removed = {}

\* C37: whenever the token lock is free, the cached token and its expiry are
\* both set or both unset, whatever calls, 401 answers, failed signings and
\* close() came before.
C37_TokenAndExpirySetTogether ==
    lock = <<>> => (jwt_token = <<>> <=> token_expires_at = <<>>)

\* A signing has failed and close() has run to its end since; the lock is free
\* and neither token nor expiry is set.
C37_Witness ==
    /\ lock = <<>>
    /\ \E p \in Procs : calls[p].raised = JwtEncodeError
    /\ http_client = "closed"
    /\ close_pc = "idle"
    /\ jwt_token = <<>>
    /\ token_expires_at = <<>>

====
